---- MODULE Spec2Model ----
(***************************************************************************)
(* A model of the SSH-driven installers of nodejs_installer: the command   *)
(* executor, the probers, the installation sequences, the per-target       *)
(* facades, the CLI run() of every installer and the GUI IPC handlers.     *)
(*                                                                         *)
(* One orchestration run is a sequential program.  Its position is pc, its *)
(* pending calls are on stack, and every `await executeCommand(...)` takes *)
(* three steps: the dispatch (conn.exec), the close of the command's       *)
(* stream on the remote side, and the continuation of the caller.          *)
(*                                                                         *)
(* The remote host is a set of facts.  A fact is "y", "n" or "?"; "?" is a *)
(* fact no command of the run has observed yet (or that a mutating command *)
(* may have changed): its value is chosen when a command first reads it,   *)
(* which is the same as choosing the whole host up front.                  *)
(*                                                                         *)
(* createInstanceScripts/create-aws-instance.js is a program of its own,   *)
(* modelled by SpecAWS: one run of AWSInstanceCreator against an AWS       *)
(* account, in create mode or in cleanup mode.                             *)
(***************************************************************************)
EXTENDS Integers, Sequences, FiniteSets, TLC

VARIABLES
    entry,        \* the entry point the operator invoked
    sel,          \* GUI: config.installOptions, the set of selected targets
    runNo,        \* number of the current invocation (the operator may re-invoke)
    prev,         \* what the previous invocation ended with
    keyExists,    \* local disk: the private key file exists
    zipExists,    \* local disk: the ZIP file of the static website exists
    argon2,       \* an argon2 implementation could be loaded
    host,         \* remote host facts
    conn,         \* the SSH session: "none", "open" or "ended"
    endCalls,     \* calls of conn.end() in this invocation
    netAttempts,  \* calls of the SSH client's connect() in this invocation
    pc,           \* position of the running code
    stack,        \* pending calls: <<[ret |-> label, catch |-> label], ...>>
    phase,        \* "ready", "busy" (a command is in flight) or "settled"
    res,          \* what the last executeCommand promise settled with
    loc,          \* local variables and return values of the running code
    inflight,     \* commands dispatched whose stream has not closed
    faults,       \* transport failures so far
    cmd,          \* the command in flight
    exit,         \* how the invocation ended: "none", "ok", "exit1", "reply" or "replyError"
    mode,         \* create-aws-instance.js: "create" or "cleanup" ("none": not that program)
    argv,         \* its command line and environment
    ec2,          \* the AWS account: the instance, the security groups and the key pairs
    creator,      \* the fields of the AWSInstanceCreator object
    frame,        \* the local variables of its running methods
    sent,         \* the creating and deleting requests it has sent, in order
    answer,       \* what the operator answered to the confirmation prompt
    cwd,          \* the .pem files in the working directory of the script
    renderer      \* the GUI's renderer process: currentOperation, buttons, form, page

vars == <<entry, sel, runNo, prev, keyExists, zipExists, argon2, host, conn, endCalls, netAttempts,
          pc, stack, phase, res, loc, inflight, faults, cmd, exit,
          mode, argv, ec2, creator, frame, sent, answer, cwd, renderer>>
\* the state of create-aws-instance.js and of the renderer process, which no
\* step of an installer touches
awsVars == <<mode, argv, ec2, creator, frame, sent, answer, cwd, renderer>>

(* Bounds of the model. *)
MaxRuns == 2
MaxFaults == 1
MaxMissing == 1
MaxSelected == 2
MaxFaultySelected == 1

Y == "y"
N == "n"
U == "?"

(* create-aws-instance.js before it has started: no arguments, an account
   with nothing in it, `this.keyPairName = null` and so on (null is "") *)
NoArgs == [credentials |-> FALSE, yes |-> FALSE, instance |-> "", keypair |-> "", securityGroup |-> ""]
NoAccount == [instance |-> "none", groups |-> {}, keys |-> {}]
NoFields == [keyPairName |-> "", securityGroupId |-> "", instanceId |-> "", instanceIp |-> ""]
NoTarget == [instance |-> "", keypair |-> "", securityGroup |-> ""]
NoResources == [instances |-> <<>>, keyPairs |-> <<>>, securityGroups |-> <<>>]
\* attempts, instanceRunning, target, ret and resources are locals; the rest
\* are books: polls counts the DescribeInstances requests of
\* waitForInstanceReady and notRunning those answered with another state than
\* running; created holds the resources this run created, error the error
\* runCreate caught and reported the error the run ended with; wait tells how
\* the termination of the instance was waited for in this cleanupResources
\* call ("none": no instance given, "rejected": TerminateInstances failed,
\* "terminated", "error", "ceiling": how waitForInstanceTermination returned)
\* and deleted whether the call has sent a delete request; removed holds the
\* local files the run has removed.
NoFrame == [attempts |-> 0, instanceRunning |-> FALSE, target |-> NoTarget, ret |-> "",
            resources |-> NoResources, polls |-> 0, notRunning |-> 0, created |-> {},
            error |-> "", reported |-> "", prompted |-> FALSE,
            wait |-> "none", deleted |-> FALSE, removed |-> {}]

(* the renderer before the operator has touched the page: `let
   currentOperation = null` (null is "null"), both buttons enabled, an empty
   form, nothing shown.  pending tells for each button whether the
   ipcRenderer.invoke of its click handler has not settled yet, and trigger
   how that handler was started. *)
Buttons == {"checkBtn", "installBtn"}
NoRenderer == [currentOperation |-> "null", disabled |-> [b \in Buttons |-> FALSE],
               pending |-> [b \in Buttons |-> FALSE], trigger |-> [b \in Buttons |-> "none"],
               valid |-> FALSE, selected |-> FALSE,
               alert |-> "none", statusArea |-> FALSE, logBuffer |-> <<>>]

(***************************************************************************)
(* The remote host.                                                        *)
(***************************************************************************)
\* basic-tools-installer.js: toolMapping, in the order of Object.keys
Tools == <<"git", "htop", "ripgrep", "build-essential", "curl", "wget", "vim", "mc", "unzip">>
getCommandName(tool) ==
    CASE tool = "ripgrep" -> "rg" [] tool = "build-essential" -> "gcc" [] OTHER -> tool
getPackageName(tool) ==
    CASE tool = "vim" -> "vim-nox" [] OTHER -> tool
ToolOfCommand(c) == CHOOSE t \in {Tools[i] : i \in 1..Len(Tools)} : getCommandName(t) = c

\* nginx-installer.js: nginxPaths
nginxPaths == <<"/usr/sbin/nginx", "/usr/bin/nginx", "/usr/local/nginx/sbin/nginx", "/usr/local/sbin/nginx">>

ToolFacts == {Tools[i] : i \in 1..Len(Tools)}
NginxFacts == {nginxPaths[i] : i \in 1..Len(nginxPaths)} \cup
              {"nginx.inPath", "nginx.runs", "nginx.dpkg", "nginx.unit", "nginx.svc", "nginx.active"}
SSLFacts == {"domain.reachable", "certbot", "ssl.cert"}
\* the binary locations StaticWebsiteInstaller.checkNginxInstalled lists
binaryLocations == <<"/usr/sbin/nginx", "/usr/bin/nginx", "/usr/local/bin/nginx", "/usr/local/sbin/nginx">>
SiteFacts == {"/usr/local/bin/nginx", "conf.exists", "conf.location", "conf.https"}
CodeFacts == {"git", "home.traversable", "code.running"}
Facts == {"node", "npm"} \cup ToolFacts \cup NginxFacts \cup SSLFacts \cup SiteFacts \cup CodeFacts

Vals(h, f) == IF h[f] = U THEN {Y, N} ELSE {h[f]}
Fix(h, f, b) == [h EXCEPT ![f] = b]
Havoc(h, fs) == [f \in DOMAIN h |-> IF f \in fs /\ h[f] = N THEN U ELSE h[f]]
Out(h, e, o) == [host |-> h, exit |-> e, out |-> o]

\* a read-only command that exits 0 and prints oy if fact f holds, and else
\* exits 1 and prints on
TestOut(h, f, oy, on) ==
    { Out(Fix(h, f, b), IF b = Y THEN 0 ELSE 1, IF b = Y THEN oy ELSE on) : b \in Vals(h, f) }
Test(h, f) == TestOut(h, f, "text", "")
\* a mutating command: exits 0 and may have established the facts fs, or fails
Mut(h, fs) == { Out(Havoc(h, fs), 0, "text"), Out(h, 1, "") }
\* `a && b` of two commands with outcomes A(h) and B(h)
AndThen(A, B(_)) ==
    { o \in A : o.exit # 0 } \cup UNION { B(o.host) : o \in { x \in A : x.exit = 0 } }

NodeHost(c, a, h) ==
    CASE c = "command -v node >/dev/null 2>&1 && node --version" -> Test(h, "node")
      [] c = "command -v npm >/dev/null 2>&1 && npm --version" -> Test(h, "npm")
      [] c = "node --version && npm --version" ->
            AndThen(Test(h, "node"), LAMBDA g : Test(g, "npm"))
      [] c = "sudo apt install -y curl" -> Mut(h, {"curl"})
      [] c = "sudo apt install -y nodejs" -> Mut(h, {"node", "npm"})
      [] OTHER -> Mut(h, {})

\* at most MaxMissing tools of the bundle are missing on the host
MissingOn(h) == Cardinality({t \in ToolFacts : h[t] = N})
ToolHost(c, a, h) ==
    CASE c = "command -v $commandName >/dev/null 2>&1 && echo installed" ->
            { o \in TestOut(h, ToolOfCommand(a[1]), "installed", "") : MissingOn(o.host) <= MaxMissing }
      [] c = "sudo apt install -y $packagesToInstall" ->
            Mut(h, {t \in ToolFacts : \E i \in 1..Len(a) : a[i] = getPackageName(t)})
      [] OTHER -> Mut(h, {})

NginxHost(c, a, h) ==
    CASE c = "$path -v 2>&1" -> Test(h, a[1])
      [] c = "command -v nginx" -> Test(h, "nginx.inPath")
      [] c = "$nginxPath -v 2>&1" -> Test(h, "nginx.runs")
      [] c = "dpkg -l nginx 2>/dev/null | grep \"^ii\"" -> Test(h, "nginx.dpkg")
      [] c = "systemctl list-units --type=service --all | grep -q nginx" -> Test(h, "nginx.unit")
      [] c = "systemctl is-enabled nginx || systemctl status nginx --no-pager -l" -> Test(h, "nginx.svc")
      [] c = "systemctl is-active nginx" -> TestOut(h, "nginx.active", "active", "inactive")
      [] c = "sudo apt install -y nginx" ->
            Mut(h, NginxFacts \ {"nginx.active"})
      [] c = "sudo systemctl start nginx" ->
            { Out([h EXCEPT !["nginx.active"] = Y, !["nginx.unit"] = Y], 0, ""), Out(h, 1, "") }
      [] c = "gpg --dry-run --quiet --no-keyring --import --import-options import-show /usr/share/keyrings/nginx-archive-keyring.gpg" ->
            { Out(h, 0, "573BFD6B3D8FBC641079A6ABABF5BD827BD9BF62"), Out(h, 0, "text"), Out(h, 1, "") }
      [] OTHER -> Mut(h, {})

\* letsencrypt-installer.js
SSLHost(c, a, h) ==
    CASE c = "curl -s -I http://$domain/.well-known/acme-challenge/domain-test.txt | head -1" ->
            UNION { { Out(Fix(h, "domain.reachable", b), 0, o) :
                        o \in IF b = Y THEN {"HTTP/1.1 200 OK", "HTTP/1.1 404 Not Found"} ELSE {""} } :
                    b \in Vals(h, "domain.reachable") }
      [] c = "sudo apt install -y certbot python3-certbot-nginx" -> Mut(h, {"certbot"})
      [] c = "certbot --version" -> Test(h, "certbot")
      [] c = "sudo certbot certonly -d $domain --nginx -n --email $email --agree-tos" ->
            { Out(Fix(h, "ssl.cert", Y), 0, "text"), Out(h, 1, "") }
      [] OTHER -> Mut(h, {})

\* `ls ... | head -1` prints the first of the binary locations that exists:
\* the host on which that is location k (none of them if k is beyond the last)
FirstBinary(h, k) ==
    [f \in DOMAIN h |->
        IF \E j \in 1..Len(binaryLocations) : j < k /\ binaryLocations[j] = f THEN N
        ELSE IF k <= Len(binaryLocations) /\ binaryLocations[k] = f THEN Y
        ELSE h[f]]
CanBeFirst(h, k) ==
    /\ \A j \in 1..Len(binaryLocations) : j < k => h[binaryLocations[j]] # Y
    /\ k <= Len(binaryLocations) => h[binaryLocations[k]] # N
\* all ways to settle the facts fs of h that are still open
RECURSIVE Settle(_, _)
Settle(h, fs) ==
    IF fs = {} THEN {h}
    ELSE LET f == CHOOSE x \in fs : TRUE
         IN  UNION { Settle(Fix(h, f, b), fs \ {f}) : b \in Vals(h, f) }

\* nginx-installer.js: StaticWebsiteInstaller
SiteHost(c, a, h) ==
    CASE c = "command -v nginx >/dev/null 2>&1" -> Test(h, "nginx.inPath")
      [] c = "nginx -v 2>&1 | head -1" -> { Out(h, 0, "text") }
      [] c = "command -v nginx >/dev/null 2>&1 && nginx -v 2>&1 | head -1" -> Test(h, "nginx.inPath")
      [] c = "ls -la /usr/sbin/nginx /usr/bin/nginx /usr/local/bin/nginx /usr/local/sbin/nginx 2>/dev/null | head -1" ->
            { Out(FirstBinary(h, k), 0, IF k > Len(binaryLocations) THEN "" ELSE binaryLocations[k]) :
                k \in { j \in 1..(Len(binaryLocations) + 1) : CanBeFirst(h, j) } }
      [] c = "$binaryPath -v 2>&1 | head -1" -> { Out(h, 0, "text") }
      [] c = "systemctl is-active nginx 2>/dev/null || service nginx status 2>/dev/null || /etc/init.d/nginx status 2>/dev/null" ->
            Test(h, "nginx.active")
      [] c = "sudo ls /etc/letsencrypt/live/$domain/fullchain.pem >/dev/null 2>&1 && echo \"SSL exists\" || echo \"SSL not found\"" ->
            { Out(Fix(h, "ssl.cert", b), 0, IF b = Y THEN "SSL exists" ELSE "SSL not found") : b \in Vals(h, "ssl.cert") }
      [] c = "sudo rm -f /etc/nginx/conf.d/$domain.conf" ->
            { Out(Fix(h, "conf.exists", N), 0, ""), Out(h, 1, "") }
      [] c = "sudo mv /tmp/$domain.conf /etc/nginx/conf.d/$domain.conf && sudo chown root:root /etc/nginx/conf.d/$domain.conf && sudo chmod 644 /etc/nginx/conf.d/$domain.conf" ->
            { Out([h EXCEPT !["conf.exists"] = Y, !["conf.location"] = N,
                            !["conf.https"] = IF a[1] THEN Y ELSE N], 0, ""),
              Out(h, 1, "") }
      [] c = "sudo ls -la /etc/nginx/conf.d/$domain.conf" -> Test(h, "conf.exists")
      [] OTHER -> Mut(h, {})

\* vscode-web-installer.js
CodeHost(c, a, h) ==
    CASE c = "sudo test -f /etc/letsencrypt/live/$domain/fullchain.pem && sudo test -f /etc/letsencrypt/live/$domain/privkey.pem && echo \"SSL files exist\" || echo \"SSL files missing\"" ->
            { Out(Fix(h, "ssl.cert", b), 0, IF b = Y THEN "SSL files exist" ELSE "SSL files missing") :
                b \in Vals(h, "ssl.cert") }
      [] c = "sudo -u nginx test -r /etc/letsencrypt/live/$domain/fullchain.pem 2>/dev/null && echo \"nginx can read SSL\" || echo \"nginx cannot read SSL\"" ->
            { Out(h, 0, "nginx can read SSL"), Out(h, 0, "nginx cannot read SSL") }
      [] c = "sudo ls -la /etc/letsencrypt/live/ 2>/dev/null || echo \"letsencrypt directory not found\"" ->
            { Out(h, 0, "text") }
      [] c = "git --version" -> Test(h, "git")
      [] c = "sudo apt install -y git" -> Mut(h, {"git"})
      [] c = "getent passwd $username | cut -d: -f6" -> { Out(h, 0, "/home/admin") }
      [] c = "stat -c '%a' $userHomeDir" ->
            { Out(Fix(h, "home.traversable", b), 0, IF b = Y THEN "755" ELSE "750") :
                b \in Vals(h, "home.traversable") }
      [] c = "sudo chmod o+x $userHomeDir" ->
            { Out(Fix(h, "home.traversable", Y), 0, ""), Out(h, 1, "") }
      [] c \in {"sudo systemctl enable --now code-server@$USER", "sudo systemctl start --now code-server@$USER",
                "sudo systemctl restart code-server@$USER"} ->
            { Out(Fix(h, "code.running", U), 0, ""), Out(h, 1, "") }
      [] c = "sudo systemctl status code-server@$USER --no-pager -l" ->
            TestOut(h, "code.running", "active (running)", "inactive (dead)")
      [] c = "sudo test -f /etc/nginx/conf.d/$domain.conf && echo \"exists\" || echo \"not found\"" ->
            { Out(Fix(h, "conf.exists", b), 0, IF b = Y THEN "exists" ELSE "not found") :
                b \in Vals(h, "conf.exists") }
      [] c = "sudo cat /etc/nginx/conf.d/$domain.conf" ->
            { Out(g, 0, IF g["conf.location"] = Y THEN "location $path/ {"
                        ELSE IF g["conf.https"] = Y THEN "server { listen 443 }"
                        ELSE "server { listen 80 }") :
                g \in Settle(h, {"conf.location", "conf.https"}) } \cup { Out(h, 1, "") }
      [] c = "sudo mv /tmp/$domain-vscode.conf /etc/nginx/conf.d/$domain.conf" ->
            { Out([h EXCEPT !["conf.exists"] = Y, !["conf.location"] = Y, !["conf.https"] = Y], 0, ""),
              Out(h, 1, "") }
      [] OTHER -> Mut(h, {})

NodeCmds == {"command -v node >/dev/null 2>&1 && node --version",
             "command -v npm >/dev/null 2>&1 && npm --version",
             "node --version && npm --version", "sudo apt update", "sudo apt install -y curl",
             "curl -fsSL https://deb.nodesource.com/setup_lts.x | sudo -E bash -",
             "sudo apt install -y nodejs"}
ToolCmds == {"command -v $commandName >/dev/null 2>&1 && echo installed",
             "sudo apt install -y $packagesToInstall"}
SiteCmds == {"command -v nginx >/dev/null 2>&1", "nginx -v 2>&1 | head -1",
             "command -v nginx >/dev/null 2>&1 && nginx -v 2>&1 | head -1",
             "ls -la /usr/sbin/nginx /usr/bin/nginx /usr/local/bin/nginx /usr/local/sbin/nginx 2>/dev/null | head -1",
             "$binaryPath -v 2>&1 | head -1",
             "systemctl is-active nginx 2>/dev/null || service nginx status 2>/dev/null || /etc/init.d/nginx status 2>/dev/null",
             "sudo ls /etc/letsencrypt/live/$domain/fullchain.pem >/dev/null 2>&1 && echo \"SSL exists\" || echo \"SSL not found\"",
             "sudo rm -f /etc/nginx/conf.d/$domain.conf",
             "sudo mv /tmp/$domain.conf /etc/nginx/conf.d/$domain.conf && sudo chown root:root /etc/nginx/conf.d/$domain.conf && sudo chmod 644 /etc/nginx/conf.d/$domain.conf",
             "sudo ls -la /etc/nginx/conf.d/$domain.conf"}
CodeCmds == {"sudo test -f /etc/letsencrypt/live/$domain/fullchain.pem && sudo test -f /etc/letsencrypt/live/$domain/privkey.pem && echo \"SSL files exist\" || echo \"SSL files missing\"",
             "sudo -u nginx test -r /etc/letsencrypt/live/$domain/fullchain.pem 2>/dev/null && echo \"nginx can read SSL\" || echo \"nginx cannot read SSL\"",
             "sudo ls -la /etc/letsencrypt/live/ 2>/dev/null || echo \"letsencrypt directory not found\"",
             "git --version", "sudo apt install -y git", "getent passwd $username | cut -d: -f6",
             "stat -c '%a' $userHomeDir", "sudo chmod o+x $userHomeDir",
             "sudo systemctl enable --now code-server@$USER", "sudo systemctl start --now code-server@$USER",
             "sudo systemctl restart code-server@$USER",
             "sudo systemctl status code-server@$USER --no-pager -l",
             "sudo test -f /etc/nginx/conf.d/$domain.conf && echo \"exists\" || echo \"not found\"",
             "sudo cat /etc/nginx/conf.d/$domain.conf",
             "sudo mv /tmp/$domain-vscode.conf /etc/nginx/conf.d/$domain.conf"}
NginxCmds == {"$path -v 2>&1", "command -v nginx", "$nginxPath -v 2>&1",
              "dpkg -l nginx 2>/dev/null | grep \"^ii\"",
              "systemctl list-units --type=service --all | grep -q nginx",
              "systemctl is-enabled nginx || systemctl status nginx --no-pager -l",
              "systemctl is-active nginx", "sudo apt install -y nginx", "sudo systemctl start nginx",
              "gpg --dry-run --quiet --no-keyring --import --import-options import-show /usr/share/keyrings/nginx-archive-keyring.gpg"}

\* the commands that only read the host
ReadOnly == {"command -v node >/dev/null 2>&1 && node --version",
             "command -v npm >/dev/null 2>&1 && npm --version",
             "node --version && npm --version",
             "command -v $commandName >/dev/null 2>&1 && echo installed",
             "$path -v 2>&1", "command -v nginx", "$nginxPath -v 2>&1",
             "dpkg -l nginx 2>/dev/null | grep \"^ii\"",
             "systemctl list-units --type=service --all | grep -q nginx",
             "systemctl is-enabled nginx || systemctl status nginx --no-pager -l",
             "systemctl is-active nginx", "certbot --version",
             "sudo test -f /etc/letsencrypt/live/$domain/fullchain.pem && sudo test -f /etc/letsencrypt/live/$domain/privkey.pem && echo \"SSL files exist\" || echo \"SSL files missing\"",
             "sudo -u nginx test -r /etc/letsencrypt/live/$domain/fullchain.pem 2>/dev/null && echo \"nginx can read SSL\" || echo \"nginx cannot read SSL\"",
             "sudo ls -la /etc/letsencrypt/live/ 2>/dev/null || echo \"letsencrypt directory not found\"",
             "git --version", "getent passwd $username | cut -d: -f6", "stat -c '%a' $userHomeDir",
             "sudo systemctl status code-server@$USER --no-pager -l",
             "sudo test -f /etc/nginx/conf.d/$domain.conf && echo \"exists\" || echo \"not found\"",
             "sudo cat /etc/nginx/conf.d/$domain.conf",
             "command -v nginx >/dev/null 2>&1", "nginx -v 2>&1 | head -1",
             "command -v nginx >/dev/null 2>&1 && nginx -v 2>&1 | head -1",
             "ls -la /usr/sbin/nginx /usr/bin/nginx /usr/local/bin/nginx /usr/local/sbin/nginx 2>/dev/null | head -1",
             "$binaryPath -v 2>&1 | head -1",
             "systemctl is-active nginx 2>/dev/null || service nginx status 2>/dev/null || /etc/init.d/nginx status 2>/dev/null",
             "sudo ls /etc/letsencrypt/live/$domain/fullchain.pem >/dev/null 2>&1 && echo \"SSL exists\" || echo \"SSL not found\"",
             "sudo ls -la /opt/webroot/$domain/",
             "sudo ls -la /opt/webroot/$domain/index.html 2>/dev/null || echo \"Index file not found\"",
             "sudo -u nginx ls /opt/webroot/$domain/index.html 2>/dev/null || echo \"Web server user cannot access index file\"",
             "command -v getenforce >/dev/null 2>&1 && getenforce || echo \"no-selinux\"",
             "sudo find /etc/nginx -name \"*.conf\" -type f | head -10",
             "sudo ls -la /etc/nginx/conf.d/$domain.conf",
             "sudo grep -n \"conf.d\" /etc/nginx/nginx.conf || echo \"conf.d not included in nginx.conf\"",
             "sudo nginx -t 2>&1", "sudo nginx -t",
             "sudo tail -10 /var/log/nginx/error.log 2>/dev/null || echo \"No nginx error logs found\"",
             "curl -s -I http://$domain/.well-known/acme-challenge/domain-test.txt | head -1",
             "gpg --dry-run --quiet --no-keyring --import --import-options import-show /usr/share/keyrings/nginx-archive-keyring.gpg"}
Mutating(c) == c \notin ReadOnly

Outcomes(c, a, h) ==
    IF c \in NodeCmds THEN NodeHost(c, a, h)
    ELSE IF c \in ToolCmds THEN ToolHost(c, a, h)
    ELSE IF c \in NginxCmds THEN NginxHost(c, a, h)
    ELSE IF c \in SiteCmds THEN SiteHost(c, a, h)
    ELSE IF c \in CodeCmds THEN CodeHost(c, a, h)
    ELSE SSLHost(c, a, h)

(***************************************************************************)
(* Control flow helpers.                                                   *)
(***************************************************************************)
Targets == {"nodejs", "nginx", "basicTools", "letsEncrypt", "staticWebsite", "vscodeWeb"}
NoOutcome == [t \in Targets |-> "none"]

\* Besides the locals of the code, loc keeps the books of the facade calls:
\* facade is the facade that is running, failed whether a mutating step of it
\* has exited non-zero, and for every target: outcome, the state its facade
\* ended in; mut, whether a mutating command was issued for it; first, the kind
\* of the first command issued for it; probed, whether a probe of the target
\* was issued; early, whether a mutating command was issued before any probe;
\* probe, what the facade's initial probe of the target reported.  installs
\* counts the package-manager install commands of the running tool bundle facade.
\* results holds what install-selected tests of its results object, recorded what
\* kind of entry each target has in it.
\* reach is how testDomainReachability ended in this run, and certbot whether
\* the certbot installation or the certificate request was issued in it.
\* probeErr tells whether a command of the running facade's initial probe was
\* rejected.  Of the running checkNginxInstalled: tried lists the detection
\* methods in the order their commands were issued, signal is the method that
\* set `installed = true`.  Of the last facade that ran: active is what the
\* running-state query of its probe observed and started how the command that
\* starts the service ended.  tested is how the `nginx -t` of the running
\* operation (extractZipFile, createNginxConfig, updateNginxConfig) ended.
InitLoc == [ret |-> [installed |-> FALSE], check |-> [installed |-> FALSE],
            facade |-> "", failed |-> FALSE, outcome |-> NoOutcome,
            mut |-> [t \in Targets |-> FALSE], first |-> [t \in Targets |-> "none"],
            probed |-> [t \in Targets |-> FALSE], early |-> [t \in Targets |-> FALSE],
            probe |-> [t \in Targets |-> "none"],
            results |-> [nginx |-> FALSE, basicTools |-> FALSE],
            recorded |-> [t \in Targets |-> "null"],
            i |-> 1, missing |-> <<>>, hasSSL |-> FALSE, installs |-> 0,
            reach |-> "none", certbot |-> FALSE,
            probeErr |-> FALSE, tried |-> <<>>, signal |-> "none", active |-> "none",
            started |-> "none", hashedPassword |-> "", tested |-> "none"]

\* no promise of executeCommand is settled and unconsumed
NoResult == [kind |-> "none", exit |-> 0, out |-> "", c |-> "", lost |-> FALSE]
\* the exitCode of a stream that closed without an exit status
NoExit == -1

\* the continuation of the running code: the next position, stack and locals
Ctl0(l, s, lc) ==
    /\ pc' = l /\ stack' = s /\ loc' = lc /\ phase' = "ready" /\ res' = NoResult
    /\ UNCHANGED <<awsVars, entry, sel, runNo, prev, keyExists, zipExists, argon2, host, inflight, faults, cmd>>

Ctl(l, s, lc) == Ctl0(l, s, lc) /\ UNCHANGED <<conn, endCalls, netAttempts, exit>>

Goto(l) == Ctl(l, stack, loc)
Call(f, r, c) == Ctl(f, <<[ret |-> r, catch |-> c]>> \o stack, loc)
Return(v) == Ctl(Head(stack).ret, Tail(stack), [loc EXCEPT !.ret = v])
\* a prober returns v, which reports the target installed or not
Report(v, inst) ==
    Ctl(Head(stack).ret, Tail(stack),
        [loc EXCEPT !.ret = v,
                    !.probe = IF loc.facade = "" \/ @[loc.facade] # "none" THEN @
                              ELSE [@ EXCEPT ![loc.facade] = IF inst THEN "installed" ELSE "missing"]])
Throw == Ctl(Head(stack).catch, Tail(stack), loc)

NoCmd == [c |-> "", a |-> <<>>]

\* the commands with which a facade probes its own target
OwnProbe(t) ==
    CASE t = "nodejs" -> {"command -v node >/dev/null 2>&1 && node --version",
                          "command -v npm >/dev/null 2>&1 && npm --version"}
      [] t = "nginx" -> {"$path -v 2>&1", "command -v nginx", "$nginxPath -v 2>&1",
                         "dpkg -l nginx 2>/dev/null | grep \"^ii\"",
                         "systemctl list-units --type=service --all | grep -q nginx",
                         "systemctl is-active nginx"}
      [] t = "basicTools" -> {"command -v $commandName >/dev/null 2>&1 && echo installed"}
      [] OTHER -> {}

\* installCertbot's package installation and obtainSSLCertificate's request
CertbotCmds == {"sudo apt install -y certbot python3-certbot-nginx",
                "sudo certbot certonly -d $domain --nginx -n --email $email --agree-tos"}

\* the detection methods of checkNginxInstalled by the position of their
\* commands, and its running-state query
MethodAt(l) ==
    CASE l = "checkNginx.path" -> "path"
      [] l \in {"checkNginx.which", "checkNginx.version"} -> "command"
      [] l = "checkNginx.dpkg" -> "package"
      [] l = "checkNginx.service" -> "service"
      [] l = "checkNginx.active" -> "active"
      [] OTHER -> "none"

\* the books after command c has been issued (passed to conn.exec)
Noted(c) ==
    IF loc.facade = "" THEN loc
    ELSE LET t == loc.facade
             m == MethodAt(pc)
         IN  [loc EXCEPT !.mut[t] = @ \/ Mutating(c),
                         !.tried = IF m = "none" THEN @ ELSE Append(@, m),
                         !.first[t] = IF @ # "none" THEN @
                                      ELSE IF c \in OwnProbe(t) THEN "probe"
                                      ELSE IF Mutating(c) THEN "mutating" ELSE "read",
                         !.probed[t] = @ \/ c \in OwnProbe(t),
                         !.early[t] = @ \/ (Mutating(c) /\ ~loc.probed[t]),
                         !.installs = IF c = "sudo apt install -y $packagesToInstall" THEN @ + 1 ELSE @,
                         !.certbot = @ \/ c \in CertbotCmds]

\* the books after conn.exec has answered command c with an error
NotedRejected(c) ==
    [Noted(c) EXCEPT !.probeErr = @ \/ (loc.facade # "" /\ c \in OwnProbe(loc.facade)
                                           /\ loc.probe[loc.facade] = "none")]

\* a call of executeCommand that is not awaited
NotAwaited == TRUE
\* `await`: the caller goes on only when no command of the run is pending
Awaited == phase = "ready"

\* transport failures are explored in the runs of at most MaxFaultySelected targets
FaultBudget == IF Cardinality(sel) > MaxFaultySelected THEN 0 ELSE MaxFaults

\* executeCommand, the dispatch: conn.exec(command, callback)
Dispatch(c, a) ==
    /\ Awaited
    /\ \/ /\ phase' = "busy"
          /\ loc' = Noted(c)
          /\ inflight' = inflight + 1
          /\ cmd' = [c |-> c, a |-> a]
          /\ UNCHANGED <<res, faults>>
       \/ /\ faults < FaultBudget
          /\ faults' = faults + 1
          /\ loc' = NotedRejected(c)
          /\ phase' = "settled"
          /\ res' = [kind |-> "rejected", exit |-> NoExit, out |-> "", c |-> c, lost |-> TRUE]
          /\ UNCHANGED <<inflight, cmd>>
    /\ UNCHANGED <<awsVars, entry, sel, runNo, prev, keyExists, zipExists, argon2, host, conn, endCalls,
                   netAttempts, pc, stack, exit>>

\* executeCommand, stream.on('close'): the promise resolves with the exit code.
\* The stream of a command whose channel died closes without an exit status.
StreamClose ==
    /\ phase = "busy"
    /\ inflight > 0
    /\ \E o \in Outcomes(cmd.c, cmd.a, host) :
          /\ host' = o.host
          /\ \/ /\ res' = [kind |-> "resolved", exit |-> o.exit, out |-> o.out, c |-> cmd.c,
                            lost |-> FALSE]
                /\ loc' = [loc EXCEPT !.failed = @ \/ (loc.facade # "" /\ Mutating(cmd.c) /\ o.exit # 0)]
                /\ UNCHANGED faults
             \/ /\ faults < FaultBudget
                /\ faults' = faults + 1
                /\ res' = [kind |-> "resolved", exit |-> NoExit, out |-> "", c |-> cmd.c,
                            lost |-> TRUE]
                /\ UNCHANGED loc
    /\ cmd' = NoCmd
    /\ inflight' = inflight - 1
    /\ phase' = "settled"
    /\ UNCHANGED <<awsVars, entry, sel, runNo, prev, keyExists, zipExists, argon2, conn, endCalls, netAttempts,
                   pc, stack, exit>>

\* `r = await this.executeCommand(conn, c, ...)` at position l, then K(r)
ExecA(l, c, a, K(_)) ==
    /\ pc = l
    /\ \/ Dispatch(c, a)
       \/ /\ phase = "settled"
          /\ K(res)

Exec(l, c, K(_)) == ExecA(l, c, <<>>, K)

Rejected(r) == r.kind = "rejected"

\* a plain statement at position l
At(l) == pc = l /\ phase = "ready"

\* entering a facade: a new installation sequence starts
\* the locals of a facade go out of scope when it ends
NoValue == [installed |-> FALSE]
Locals(lc) == [lc EXCEPT !.i = 1, !.missing = <<>>, !.check = NoValue, !.hasSSL = FALSE,
                        !.installs = 0, !.probeErr = FALSE, !.tried = <<>>, !.signal = "none",
                        !.hashedPassword = "", !.tested = "none"]
Begin(t) == [loc EXCEPT !.facade = t, !.failed = FALSE, !.active = "none", !.started = "none"]
Enter(t, l) == Ctl(l, stack, Begin(t))
\* a facade returns v; st is the state of the facade's state machine it ends in
FacadeReturn(v, st) ==
    Ctl(Head(stack).ret, Tail(stack),
        [Locals(loc) EXCEPT !.ret = v, !.outcome[loc.facade] = st, !.facade = "", !.failed = FALSE])
\* a facade throws; st is the state it ends in
FacadeFail(st) ==
    Ctl(Head(stack).catch, Tail(stack),
        [Locals(loc) EXCEPT !.ret = NoValue, !.outcome[loc.facade] = st, !.facade = "", !.failed = FALSE])
FacadeThrow == FacadeFail("failed")

(***************************************************************************)
(* index.js: NodeJSInstaller                                               *)
(***************************************************************************)
checkNodeJSInstalled ==
    \/ Exec("checkNode.node", "command -v node >/dev/null 2>&1 && node --version",
            LAMBDA r : IF Rejected(r) THEN Report([installed |-> FALSE], FALSE)
                       ELSE IF r.exit = 0 THEN Goto("checkNode.npm")
                       ELSE Report([installed |-> FALSE], FALSE))
    \/ Exec("checkNode.npm", "command -v npm >/dev/null 2>&1 && npm --version",
            LAMBDA r : IF Rejected(r) THEN Report([installed |-> FALSE], FALSE)
                       ELSE Report([installed |-> TRUE], TRUE))


\* the early return is lost: the sequence runs whatever the probe reported
NeverAlreadyInstalled(check) == FALSE

\* `if (checkResult.installed) return checkResult;`
AlreadyInstalled(check) == check.installed

\* the probe is lost: the facade starts with its installation sequence
installNodeJS_Unprobed ==
    At("installNode") /\ Enter("nodejs", "installNode.update")

\* installNodeJS, the probe and the early return
installNodeJS ==
    \/ At("installNode") /\ Ctl("checkNode.node", <<[ret |-> "installNode.checked", catch |-> "none"]>> \o stack,
                                  Begin("nodejs"))
    \/ At("installNode.checked") /\
          IF AlreadyInstalled(loc.ret) THEN FacadeReturn(loc.ret, "skipped")
          ELSE Goto("installNode.update")

\* installNodeJS, the try block: the installation sequence and its verification
installNodeJS_sequence ==
    \/ Exec("installNode.update", "sudo apt update",
            LAMBDA r : IF Rejected(r) THEN FacadeThrow ELSE Goto("installNode.curl"))
    \/ Exec("installNode.curl", "sudo apt install -y curl",
            LAMBDA r : IF Rejected(r) THEN FacadeThrow ELSE Goto("installNode.repo"))
    \/ Exec("installNode.repo", "curl -fsSL https://deb.nodesource.com/setup_lts.x | sudo -E bash -",
            LAMBDA r : IF Rejected(r) THEN FacadeThrow ELSE Goto("installNode.nodejs"))
    \/ Exec("installNode.nodejs", "sudo apt install -y nodejs",
            LAMBDA r : IF Rejected(r) THEN FacadeThrow ELSE Goto("installNode.verify"))
    \/ Exec("installNode.verify", "node --version && npm --version",
            LAMBDA r : IF Rejected(r) THEN FacadeThrow
                       ELSE IF r.exit = 0 THEN FacadeReturn([installed |-> TRUE], "verified")
                       ELSE FacadeFail("unverified"))

(***************************************************************************)
(* nginx-installer.js: NginxInstaller                                      *)
(***************************************************************************)
NotInstalled == [installed |-> FALSE, running |-> FALSE]

\* the positive signal of method m does not end the detection
SignalWithoutStop(m) == Ctl("checkNginx.dpkg", stack, [loc EXCEPT !.signal = m])

\* `installed = true` by detection method m: on to the running-state query
Signal(m) == Ctl("checkNginx.active", stack, [loc EXCEPT !.signal = m])

checkNginxInstalled ==
    \/ At("checkNginx") /\ Ctl("checkNginx.path", stack,
                                [loc EXCEPT !.i = 1, !.tried = <<>>, !.signal = "none"])
    \/ ExecA("checkNginx.path", "$path -v 2>&1", <<nginxPaths[loc.i]>>,
             LAMBDA r : IF ~Rejected(r) /\ r.exit = 0 /\ r.out # "" THEN Signal("path")
                        ELSE IF loc.i < Len(nginxPaths)
                             THEN Ctl("checkNginx.path", stack, [loc EXCEPT !.i = @ + 1])
                        ELSE Goto("checkNginx.which"))
    \/ Exec("checkNginx.which", "command -v nginx",
            LAMBDA r : IF ~Rejected(r) /\ r.exit = 0 THEN Goto("checkNginx.version")
                       ELSE Goto("checkNginx.dpkg"))
    \/ Exec("checkNginx.version", "$nginxPath -v 2>&1",
            LAMBDA r : IF ~Rejected(r) /\ r.exit = 0 /\ r.out # "" THEN Signal("command")
                       ELSE Goto("checkNginx.dpkg"))
    \/ Exec("checkNginx.dpkg", "dpkg -l nginx 2>/dev/null | grep \"^ii\"",
            LAMBDA r : IF ~Rejected(r) /\ r.exit = 0 THEN Signal("package")
                       ELSE Goto("checkNginx.service"))
    \/ Exec("checkNginx.service", "systemctl list-units --type=service --all | grep -q nginx",
            LAMBDA r : IF ~Rejected(r) /\ r.exit = 0 THEN Signal("service")
                       ELSE Report(NotInstalled, FALSE))
    \/ Exec("checkNginx.active", "systemctl is-active nginx",
            LAMBDA r : Ctl(Head(stack).ret, Tail(stack),
                           [loc EXCEPT !.ret = [installed |-> TRUE,
                                                running |-> ~Rejected(r) /\ r.out = "active"],
                                       !.probe = IF loc.facade = "" \/ @[loc.facade] # "none" THEN @
                                                 ELSE [@ EXCEPT ![loc.facade] = "installed"],
                                       !.active = IF Rejected(r) THEN "error"
                                                  ELSE IF r.out = "active" THEN "active"
                                                  ELSE "inactive"]))

\* the result installNginx returns after a verified installation
NginxVerified == [installed |-> TRUE, running |-> TRUE]

installNginx ==
    \/ At("installNginx") /\ Ctl("checkNginx", <<[ret |-> "installNginx.checked", catch |-> "none"]>> \o stack,
                                 Begin("nginx"))
    \/ At("installNginx.checked") /\
          IF AlreadyInstalled(loc.ret) THEN FacadeReturn(loc.ret, "skipped")
          ELSE Goto("installNginx.update")
    \/ Exec("installNginx.update", "sudo apt update",
            LAMBDA r : IF Rejected(r) THEN FacadeThrow ELSE Goto("installNginx.prereq"))
    \/ Exec("installNginx.prereq", "sudo apt install -y curl gnupg2 ca-certificates lsb-release debian-archive-keyring",
            LAMBDA r : IF Rejected(r) THEN FacadeThrow ELSE Goto("installNginx.key"))
    \/ Exec("installNginx.key", "curl https://nginx.org/keys/nginx_signing.key | gpg --dearmor | sudo tee /usr/share/keyrings/nginx-archive-keyring.gpg >/dev/null",
            LAMBDA r : IF Rejected(r) THEN FacadeThrow ELSE Goto("installNginx.gnupg"))
    \/ Exec("installNginx.gnupg", "mkdir -p ~/.gnupg",
            LAMBDA r : IF Rejected(r) THEN Goto("installNginx.repo") ELSE Goto("installNginx.gpg"))
    \/ Exec("installNginx.gpg", "gpg --dry-run --quiet --no-keyring --import --import-options import-show /usr/share/keyrings/nginx-archive-keyring.gpg",
            LAMBDA r : Goto("installNginx.repo"))
    \/ Exec("installNginx.repo", "echo deb [signed-by=...] http://nginx.org/packages/debian | sudo tee /etc/apt/sources.list.d/nginx.list",
            LAMBDA r : IF Rejected(r) THEN FacadeThrow ELSE Goto("installNginx.pin"))
    \/ Exec("installNginx.pin", "echo -e Package: * Pin: origin nginx.org | sudo tee /etc/apt/preferences.d/99nginx",
            LAMBDA r : IF Rejected(r) THEN FacadeThrow ELSE Goto("installNginx.update2"))
    \/ Exec("installNginx.update2", "sudo apt update",
            LAMBDA r : IF Rejected(r) THEN FacadeThrow ELSE Goto("installNginx.nginx"))
    \/ Exec("installNginx.nginx", "sudo apt install -y nginx",
            LAMBDA r : IF Rejected(r) THEN FacadeThrow
                       ELSE Ctl("installNginx.vpath", stack, [loc EXCEPT !.i = 1]))
    \/ ExecA("installNginx.vpath", "$path -v 2>&1", <<nginxPaths[loc.i]>>,
             LAMBDA r : IF ~Rejected(r) /\ r.exit = 0 /\ r.out # "" THEN Goto("installNginx.start")
                        ELSE IF loc.i < Len(nginxPaths)
                             THEN Ctl("installNginx.vpath", stack, [loc EXCEPT !.i = @ + 1])
                        ELSE Goto("installNginx.vwhich"))
    \/ Exec("installNginx.vwhich", "command -v nginx",
            LAMBDA r : IF ~Rejected(r) /\ r.exit = 0 THEN Goto("installNginx.vversion")
                       ELSE Goto("installNginx.vdpkg"))
    \/ Exec("installNginx.vversion", "$nginxPath -v 2>&1",
            LAMBDA r : IF ~Rejected(r) /\ r.exit = 0 /\ r.out # "" THEN Goto("installNginx.start")
                       ELSE Goto("installNginx.vdpkg"))
    \/ Exec("installNginx.vdpkg", "dpkg -l nginx 2>/dev/null | grep \"^ii\"",
            LAMBDA r : IF ~Rejected(r) /\ r.exit = 0 THEN Goto("installNginx.start")
                       ELSE Goto("installNginx.vservice"))
    \/ Exec("installNginx.vservice", "systemctl is-enabled nginx || systemctl status nginx --no-pager -l",
            LAMBDA r : IF ~Rejected(r) /\ r.exit = 0 THEN Goto("installNginx.start")
                       ELSE FacadeFail("unverified"))
    \/ Exec("installNginx.start", "sudo systemctl start nginx",
            LAMBDA r : Ctl(Head(stack).ret, Tail(stack),
                           [Locals(loc) EXCEPT !.ret = NginxVerified, !.outcome["nginx"] = "verified",
                                               !.facade = "", !.failed = FALSE,
                                               !.started = IF Rejected(r) THEN "error"
                                                           ELSE IF r.exit = 0 THEN "ok"
                                                           ELSE "failed"]))

(***************************************************************************)
(* basic-tools-installer.js: BasicToolsInstaller                           *)
(***************************************************************************)
\* a tool whose probe command was rejected is taken to be installed
checkToolInstalled_ErrorIsInstalled(r) == Rejected(r) \/ (r.exit = 0 /\ r.out = "installed")

\* checkToolInstalled: exitCode === 0 && output.trim() === 'installed'
checkToolInstalled(r) == ~Rejected(r) /\ r.exit = 0 /\ r.out = "installed"

checkBasicToolsInstalled ==
    \/ At("checkTools") /\ Ctl("checkTools.tool", stack, [loc EXCEPT !.i = 1, !.missing = <<>>])
    \/ ExecA("checkTools.tool", "command -v $commandName >/dev/null 2>&1 && echo installed",
             <<getCommandName(Tools[loc.i])>>,
             LAMBDA r :
                LET m == IF checkToolInstalled(r) THEN loc.missing ELSE Append(loc.missing, Tools[loc.i])
                IN  IF loc.i < Len(Tools)
                    THEN Ctl("checkTools.tool", stack, [loc EXCEPT !.i = @ + 1, !.missing = m])
                    ELSE Report([missing |-> m, allInstalled |-> Len(m) = 0], Len(m) = 0))

\* the early return is lost: the bundle is installed whatever the probe reported
NothingMissingIgnored(check) == FALSE

\* `if (checkResult.allInstalled) return checkResult;`
NothingMissing(check) == check.allInstalled

\* every tool of the bundle is installed, whatever the probe reported
packagesToInstall_All(missing) == [i \in 1..Len(Tools) |-> getPackageName(Tools[i])]

\* checkResult.missing.map(tool => this.getPackageName(tool))
packagesToInstall(missing) == [i \in 1..Len(missing) |-> getPackageName(missing[i])]

installBasicTools ==
    \/ At("installTools") /\ Ctl("checkTools", <<[ret |-> "installTools.checked", catch |-> "none"]>> \o stack,
                                 Begin("basicTools"))
    \/ At("installTools.checked") /\
          IF NothingMissing(loc.ret) THEN FacadeReturn(loc.ret, "skipped")
          ELSE Ctl("installTools.update", stack, [loc EXCEPT !.check = loc.ret])
    \/ Exec("installTools.update", "sudo apt update",
            LAMBDA r : IF Rejected(r) THEN FacadeThrow ELSE Goto("installTools.install"))
    \/ ExecA("installTools.install", "sudo apt install -y $packagesToInstall",
             packagesToInstall(loc.check.missing),
             LAMBDA r : IF Rejected(r) THEN FacadeThrow
                        ELSE Call("checkTools", "installTools.final", "none"))
    \/ At("installTools.final") /\
          IF loc.ret.allInstalled
          THEN FacadeReturn([missing |-> <<>>, allInstalled |-> TRUE], "verified")
          ELSE FacadeReturn(loc.ret, "unverified")

(***************************************************************************)
(* letsencrypt-installer.js: SimpleSSLInstaller                            *)
(***************************************************************************)
\* every response passes the reachability test
ReachableWhateverResponse(out) == TRUE

\* testResult.output.includes('200') || testResult.output.includes('404')
Reachable(out) == out \in {"HTTP/1.1 200 OK", "HTTP/1.1 404 Not Found"}

\* catch (error) { ...; throw error; }: the test failed, and so does the facade
testDomainReachability_catch ==
    Ctl(Head(stack).catch, Tail(stack),
        [Locals(loc) EXCEPT !.ret = NoValue, !.outcome[loc.facade] = "failed", !.facade = "",
                            !.failed = FALSE, !.reach = "failed"])

testDomainReachability ==
    \/ Exec("reach.mkdir", "sudo mkdir -p /usr/share/nginx/html/.well-known/acme-challenge",
            LAMBDA r : IF Rejected(r) THEN testDomainReachability_catch ELSE Goto("reach.chown"))
    \/ Exec("reach.chown", "sudo chown -R www-data:www-data /usr/share/nginx/html",
            LAMBDA r : IF Rejected(r) THEN testDomainReachability_catch ELSE Goto("reach.file"))
    \/ Exec("reach.file", "echo $testContent | sudo tee /usr/share/nginx/html/.well-known/acme-challenge/domain-test.txt > /dev/null",
            LAMBDA r : IF Rejected(r) THEN testDomainReachability_catch ELSE Goto("reach.curl"))
    \/ Exec("reach.curl", "curl -s -I http://$domain/.well-known/acme-challenge/domain-test.txt | head -1",
            LAMBDA r : IF ~Rejected(r) /\ Reachable(r.out)
                       THEN Ctl("certbot.update", stack, [loc EXCEPT !.reach = "passed"])
                       ELSE testDomainReachability_catch)

createRenewalHook ==
    \/ Exec("hook.mkdir", "sudo mkdir -p /etc/letsencrypt/renewal-hooks/post",
            LAMBDA r : IF Rejected(r) THEN Goto("certbot.verify") ELSE Goto("hook.cat"))
    \/ Exec("hook.cat", "cat > /tmp/nginx-reload-hook.sh << 'EOF' $hookScript EOF",
            LAMBDA r : IF Rejected(r) THEN Goto("certbot.verify") ELSE Goto("hook.mv"))
    \/ Exec("hook.mv", "sudo mv /tmp/nginx-reload-hook.sh /etc/letsencrypt/renewal-hooks/post/nginx-reload.sh",
            LAMBDA r : IF Rejected(r) THEN Goto("certbot.verify") ELSE Goto("hook.chmod"))
    \/ Exec("hook.chmod", "sudo chmod +x /etc/letsencrypt/renewal-hooks/post/nginx-reload.sh",
            LAMBDA r : Goto("certbot.verify"))

installCertbot ==
    \/ Exec("certbot.update", "sudo apt update",
            LAMBDA r : IF Rejected(r) THEN FacadeThrow ELSE Goto("certbot.install"))
    \/ Exec("certbot.install", "sudo apt install -y certbot python3-certbot-nginx",
            LAMBDA r : IF Rejected(r) THEN FacadeThrow ELSE Goto("hook.mkdir"))
    \/ Exec("certbot.verify", "certbot --version",
            LAMBDA r : IF ~Rejected(r) /\ r.exit = 0 THEN Goto("obtain") ELSE FacadeThrow)

obtainSSLCertificate ==
    Exec("obtain", "sudo certbot certonly -d $domain --nginx -n --email $email --agree-tos",
         LAMBDA r : IF ~Rejected(r) /\ r.exit = 0 THEN FacadeReturn([success |-> TRUE], "verified")
                    ELSE FacadeThrow)

installLetsEncrypt ==
    At("installSSL") /\ Enter("letsEncrypt", "reach.mkdir")

(***************************************************************************)
(* nginx-installer.js: StaticWebsiteInstaller                              *)
(***************************************************************************)
StaticWebsiteInstaller_checkNginxInstalled ==
    \/ Exec("static.which", "command -v nginx >/dev/null 2>&1",
            LAMBDA r : IF Rejected(r) THEN FacadeThrow
                       ELSE IF r.exit = 0 THEN Goto("static.version") ELSE Goto("static.ls"))
    \/ Exec("static.version", "nginx -v 2>&1 | head -1",
            LAMBDA r : IF Rejected(r) THEN FacadeThrow
                       ELSE IF r.exit = 0 THEN Goto("static.ssl") ELSE Goto("static.ls"))
    \/ Exec("static.ls", "ls -la /usr/sbin/nginx /usr/bin/nginx /usr/local/bin/nginx /usr/local/sbin/nginx 2>/dev/null | head -1",
            LAMBDA r : IF Rejected(r) THEN FacadeThrow
                       ELSE IF r.exit = 0 /\ r.out # "" THEN Goto("static.binver")
                       ELSE Goto("static.service"))
    \/ Exec("static.binver", "$binaryPath -v 2>&1 | head -1",
            LAMBDA r : IF Rejected(r) THEN FacadeThrow
                       ELSE IF r.exit = 0 THEN Goto("static.ssl") ELSE Goto("static.service"))
    \/ Exec("static.service", "systemctl is-active nginx 2>/dev/null || service nginx status 2>/dev/null || /etc/init.d/nginx status 2>/dev/null",
            LAMBDA r : IF ~Rejected(r) /\ r.exit = 0 THEN Goto("static.ssl") ELSE FacadeThrow)

StaticWebsiteInstaller_checkSSLStatus ==
    Exec("static.ssl", "sudo ls /etc/letsencrypt/live/$domain/fullchain.pem >/dev/null 2>&1 && echo \"SSL exists\" || echo \"SSL not found\"",
         LAMBDA r : Ctl("static.clean", stack,
                        [loc EXCEPT !.hasSSL = ~Rejected(r) /\ r.out = "SSL exists"]))

cleanExistingInstallation ==
    \/ Exec("static.clean", "sudo rm -f /etc/nginx/conf.d/$domain.conf",
            LAMBDA r : IF Rejected(r) THEN Goto("static.upload") ELSE Goto("static.clean2"))
    \/ Exec("static.clean2", "sudo rm -rf /opt/webroot/$domain",
            LAMBDA r : Goto("static.upload"))

\* conn.sftp and the write stream: the upload ends or fails
uploadZipFile ==
    /\ At("static.upload")
    /\ IF ~zipExists THEN FacadeThrow
       ELSE \/ Ctl("static.extract", stack, [loc EXCEPT !.i = 1])
            \/ FacadeThrow

\* the commands of extractZipFile, in order
ExtractSteps ==
    << "sudo mkdir -p /opt/webroot", "sudo chmod 755 /opt/webroot",
       "sudo mkdir -p /opt/webroot/$domain",
       "sudo unzip -o $remoteZipPath -d /opt/webroot/$domain",
       "sudo chown -R nginx:nginx /opt/webroot/$domain",
       "sudo chmod -R 755 /opt/webroot/$domain",
       "sudo ls -la /opt/webroot/$domain/",
       "sudo ls -la /opt/webroot/$domain/index.html 2>/dev/null || echo \"Index file not found\"",
       "sudo -u nginx ls /opt/webroot/$domain/index.html 2>/dev/null || echo \"Web server user cannot access index file\"",
       "command -v getenforce >/dev/null 2>&1 && getenforce || echo \"no-selinux\"",
       "sudo find /etc/nginx -name \"*.conf\" -type f | head -10",
       "sudo ls -la /etc/nginx/conf.d/$domain.conf",
       "sudo grep -n \"conf.d\" /etc/nginx/nginx.conf || echo \"conf.d not included in nginx.conf\"",
       "sudo nginx -t 2>&1",
       "sudo systemctl reload nginx 2>&1 || sudo service nginx reload 2>&1",
       "sudo tail -10 /var/log/nginx/error.log 2>/dev/null || echo \"No nginx error logs found\"",
       "sudo rm -f $remoteZipPath" >>

\* the reload is issued whatever the configuration test said
ConfigTestIgnored(r) == TRUE

\* testResult.exitCode === 0
ConfigTestPassed(r) == r.exit = 0

\* the books after `nginx -t` has ended with r
Tested(r) == IF ~Rejected(r) /\ r.exit = 0 THEN "passed" ELSE "failed"

extractZipFile ==
    ExecA("static.extract", ExtractSteps[loc.i], <<>>,
          LAMBDA r : IF Rejected(r) THEN FacadeThrow
                     ELSE IF loc.i = Len(ExtractSteps)
                          THEN Ctl("static.conf", stack, [loc EXCEPT !.tested = "none"])
                     ELSE IF ExtractSteps[loc.i] = "sudo nginx -t 2>&1"
                          THEN Ctl("static.extract", stack,
                                   [loc EXCEPT !.i = IF ConfigTestPassed(r) THEN @ + 1 ELSE @ + 2,
                                               !.tested = Tested(r)])
                     ELSE Ctl("static.extract", stack, [loc EXCEPT !.i = @ + 1]))

createNginxConfig ==
    \/ Exec("static.conf", "cat > /tmp/$domain.conf << 'EOF' $nginxConfig EOF",
            LAMBDA r : IF Rejected(r) THEN FacadeThrow ELSE Goto("static.mv"))
    \/ ExecA("static.mv", "sudo mv /tmp/$domain.conf /etc/nginx/conf.d/$domain.conf && sudo chown root:root /etc/nginx/conf.d/$domain.conf && sudo chmod 644 /etc/nginx/conf.d/$domain.conf",
             <<loc.hasSSL>>,
             LAMBDA r : IF Rejected(r) THEN FacadeThrow ELSE Goto("static.test"))
    \/ Exec("static.test", "sudo nginx -t",
            LAMBDA r : IF ~Rejected(r) /\ ConfigTestPassed(r)
                       THEN Ctl("static.reload", stack, [loc EXCEPT !.tested = Tested(r)])
                       ELSE FacadeThrow)
    \/ Exec("static.reload", "sudo systemctl reload nginx",
            LAMBDA r : IF Rejected(r) THEN FacadeThrow
                       ELSE FacadeReturn([success |-> TRUE], "verified"))

installStaticWebsite ==
    At("installStatic") /\ Enter("staticWebsite", "static.which")

(***************************************************************************)
(* vscode-web-installer.js: VSCodeWebInstaller                             *)
(***************************************************************************)
NoSSL == [hasSSL |-> FALSE]

checkSSLStatus ==
    \/ Exec("vs.ssl", "sudo test -f /etc/letsencrypt/live/$domain/fullchain.pem && sudo test -f /etc/letsencrypt/live/$domain/privkey.pem && echo \"SSL files exist\" || echo \"SSL files missing\"",
            LAMBDA r : IF Rejected(r) THEN Return(NoSSL)
                       ELSE Ctl("vs.sslAccess", stack, [loc EXCEPT !.hasSSL = r.out = "SSL files exist"]))
    \/ Exec("vs.sslAccess", "sudo -u nginx test -r /etc/letsencrypt/live/$domain/fullchain.pem 2>/dev/null && echo \"nginx can read SSL\" || echo \"nginx cannot read SSL\"",
            LAMBDA r : IF Rejected(r) THEN Return(NoSSL)
                       ELSE IF loc.hasSSL THEN Return([hasSSL |-> TRUE])
                       ELSE Goto("vs.sslList"))
    \/ Exec("vs.sslList", "sudo ls -la /etc/letsencrypt/live/ 2>/dev/null || echo \"letsencrypt directory not found\"",
            LAMBDA r : Return(NoSSL))

installGit ==
    \/ Exec("git.check", "git --version",
            LAMBDA r : IF Rejected(r) THEN FacadeThrow
                       ELSE IF r.exit = 0 THEN Goto("webroot.getent") ELSE Goto("git.update"))
    \/ Exec("git.update", "sudo apt update",
            LAMBDA r : IF Rejected(r) THEN FacadeThrow ELSE Goto("git.install"))
    \/ Exec("git.install", "sudo apt install -y git",
            LAMBDA r : IF Rejected(r) THEN FacadeThrow ELSE Goto("git.verify"))
    \/ Exec("git.verify", "git --version",
            LAMBDA r : IF ~Rejected(r) /\ r.exit = 0 THEN Goto("git.config") ELSE FacadeThrow)
    \/ Exec("git.config", "git config --global init.defaultBranch main",
            LAMBDA r : IF Rejected(r) THEN FacadeThrow ELSE Goto("webroot.getent"))

\* parseInt(homePermStr.charAt(2)) of the modes stat prints on the modelled hosts
worldPerm(out) == CASE out = "755" -> 5 [] out = "750" -> 0 [] OTHER -> -1

createWebrootDirectory ==
    \/ Exec("webroot.getent", "getent passwd $username | cut -d: -f6",
            LAMBDA r : IF Rejected(r) THEN FacadeThrow ELSE Goto("webroot.mkdir"))
    \/ Exec("webroot.mkdir", "sudo mkdir -p $userHomeDir/webroot",
            LAMBDA r : IF Rejected(r) THEN FacadeThrow ELSE Goto("webroot.mkdir2"))
    \/ Exec("webroot.mkdir2", "sudo mkdir -p $userHomeDir/webroot/$domain",
            LAMBDA r : IF Rejected(r) THEN FacadeThrow ELSE Goto("webroot.stat"))
    \/ Exec("webroot.stat", "stat -c '%a' $userHomeDir",
            LAMBDA r : IF Rejected(r) THEN FacadeThrow
                       ELSE IF worldPerm(r.out) \notin {1, 3, 5, 7} THEN Goto("webroot.chmodx")
                       ELSE Goto("webroot.chown"))
    \/ Exec("webroot.chmodx", "sudo chmod o+x $userHomeDir",
            LAMBDA r : IF Rejected(r) THEN FacadeThrow ELSE Goto("webroot.chown"))
    \/ Exec("webroot.chown", "sudo chown -R $username $username $userHomeDir/webroot/$domain",
            LAMBDA r : IF Rejected(r) THEN FacadeThrow ELSE Goto("webroot.chmod"))
    \/ Exec("webroot.chmod", "sudo chmod -R 755 $userHomeDir/webroot/$domain",
            LAMBDA r : IF Rejected(r) THEN FacadeThrow ELSE Goto("webroot.cat"))
    \/ Exec("webroot.cat", "cat > /tmp/index.html << 'EOF' $indexHtml EOF",
            LAMBDA r : IF Rejected(r) THEN FacadeThrow ELSE Goto("webroot.mv"))
    \/ Exec("webroot.mv", "sudo mv /tmp/index.html $userHomeDir/webroot/$domain/index.html",
            LAMBDA r : IF Rejected(r) THEN FacadeThrow ELSE Goto("code.install"))

installCodeServer ==
    \/ Exec("code.install", "curl -fsSL https://code-server.dev/install.sh | sudo sh",
            LAMBDA r : IF Rejected(r) THEN FacadeThrow ELSE Goto("code.enable"))
    \/ Exec("code.enable", "sudo systemctl enable --now code-server@$USER",
            LAMBDA r : IF Rejected(r) THEN FacadeThrow ELSE Goto("code.start"))
    \/ Exec("code.start", "sudo systemctl start --now code-server@$USER",
            LAMBDA r : IF Rejected(r) THEN FacadeThrow ELSE Goto("code.status"))
    \/ Exec("code.status", "sudo systemctl status code-server@$USER --no-pager -l",
            LAMBDA r : IF ~Rejected(r) /\ r.exit = 0 /\ r.out = "active (running)" THEN Goto("vs.hash")
                       ELSE FacadeThrow)

\* without argon2 the configuration is written with the password as it is
generateHashedPassword_PlaintextFallback ==
    At("vs.hash") /\ Ctl("cfg.mkdir", stack,
                         [loc EXCEPT !.hashedPassword = IF argon2 THEN "argon2" ELSE "plaintext"])

\* `if (!argon2) throw`; argon2.hash returns the encoded hash or throws
generateHashedPassword ==
    At("vs.hash") /\
       IF argon2
       THEN \/ Ctl("cfg.mkdir", stack, [loc EXCEPT !.hashedPassword = "argon2"])
            \/ FacadeThrow
       ELSE FacadeThrow

createCodeServerConfig ==
    \/ Exec("cfg.mkdir", "mkdir -p ~/.config/code-server",
            LAMBDA r : IF Rejected(r) THEN FacadeThrow ELSE Goto("cfg.cat"))
    \/ ExecA("cfg.cat", "cat > ~/.config/code-server/config.yaml << 'EOF' $configContent EOF",
             <<loc.hashedPassword>>,
             LAMBDA r : IF Rejected(r) THEN FacadeThrow ELSE Goto("cfg.restart"))
    \/ Exec("cfg.restart", "sudo systemctl restart code-server@$USER",
            LAMBDA r : IF Rejected(r) THEN FacadeThrow ELSE Goto("ng.exists"))

updateNginxConfig ==
    \/ Exec("ng.exists", "sudo test -f /etc/nginx/conf.d/$domain.conf && echo \"exists\" || echo \"not found\"",
            LAMBDA r : IF Rejected(r) THEN FacadeThrow
                       ELSE IF r.out = "exists" THEN Goto("ng.read") ELSE Goto("ng.write"))
    \/ Exec("ng.read", "sudo cat /etc/nginx/conf.d/$domain.conf",
            LAMBDA r : IF Rejected(r) \/ r.exit # 0 THEN FacadeThrow
                       ELSE IF r.out = "location $path/ {" THEN FacadeReturn([success |-> TRUE], "verified")
                       ELSE IF r.out = "server { listen 443 }" THEN Goto("ng.write")
                       ELSE FacadeThrow)
    \/ Exec("ng.write", "cat > /tmp/$domain-vscode.conf << 'EOF' $configContent EOF",
            LAMBDA r : IF Rejected(r) THEN FacadeThrow ELSE Goto("ng.mv"))
    \/ Exec("ng.mv", "sudo mv /tmp/$domain-vscode.conf /etc/nginx/conf.d/$domain.conf",
            LAMBDA r : IF Rejected(r) THEN FacadeThrow ELSE Goto("ng.test"))
    \/ Exec("ng.test", "sudo nginx -t",
            LAMBDA r : IF ~Rejected(r) /\ ConfigTestPassed(r)
                       THEN Ctl("ng.reload", stack, [loc EXCEPT !.tested = Tested(r)])
                       ELSE FacadeThrow)
    \/ Exec("ng.reload", "sudo systemctl reload nginx",
            LAMBDA r : IF Rejected(r) THEN FacadeThrow
                       ELSE FacadeReturn([success |-> TRUE], "verified"))

\* the certificate is taken to be there, whatever the check found
HasCertificateAssumed(sslStatus) == TRUE

\* `if (!sslStatus.hasSSL) throw new Error('SSL certificate is required ...')`
HasCertificate(sslStatus) == sslStatus.hasSSL

installVSCodeWeb ==
    \/ At("installVSCode") /\ Ctl("vs.ssl", <<[ret |-> "vs.checked", catch |-> "none"]>> \o stack,
                                  Begin("vscodeWeb"))
    \/ At("vs.checked") /\ IF HasCertificate(loc.ret) THEN Goto("git.check") ELSE FacadeThrow

\* the client dials before the key is read
connect_DialsBeforeKeyRead ==
    /\ At("connect")
    /\ netAttempts' = netAttempts + 1
    /\ IF keyExists THEN conn' = "open" /\ Ctl0(Head(stack).ret, Tail(stack), loc)
       ELSE conn' = conn /\ Ctl0(Head(stack).catch, Tail(stack), loc)
    /\ UNCHANGED <<endCalls, exit>>

\* connect(): the key is read from disk, then the SSH client connects
connect ==
    /\ At("connect")
    /\ \/ /\ ~keyExists
          /\ Ctl(Head(stack).catch, Tail(stack), loc)
       \/ /\ keyExists
          /\ netAttempts' = netAttempts + 1
          /\ \/ conn' = "open" /\ Ctl0(Head(stack).ret, Tail(stack), loc)
             \/ conn' = conn /\ Ctl0(Head(stack).catch, Tail(stack), loc)
          /\ UNCHANGED <<endCalls, exit>>

\* process.exit(1): the process ends at once, no finally block runs
ProcessExit ==
    /\ pc' = "done" /\ exit' = "exit1" /\ stack' = <<>> /\ phase' = "ready"
    /\ UNCHANGED <<awsVars, entry, sel, runNo, prev, keyExists, zipExists, argon2, host, conn, endCalls,
                   netAttempts, res, loc, inflight, faults, cmd>>

\* the finally block of run(): if (conn) conn.end()
RunFinally ==
    /\ IF conn = "open" THEN conn' = "ended" /\ endCalls' = endCalls + 1
       ELSE UNCHANGED <<conn, endCalls>>
    /\ pc' = "done" /\ exit' = "ok" /\ stack' = <<>> /\ phase' = "ready"
    /\ UNCHANGED <<awsVars, entry, sel, runNo, prev, keyExists, zipExists, argon2, host,
                   netAttempts, res, loc, inflight, faults, cmd>>

\* run() of an installer class: e the entry point, f the facade it calls,
\* ok what it tests of the result, exits whether a failed test exits
run(e, f, ok, exits) ==
    /\ entry = e
    /\ \/ At("run") /\ Call("connect", "run.connected", "run.catch")
       \/ At("run.connected") /\ Call(f, "run.result", "run.catch")
       \/ At("run.result") /\ IF ok \/ ~exits THEN Goto("run.finally") ELSE ProcessExit
       \/ At("run.catch") /\ ProcessExit
       \/ At("run.finally") /\ RunFinally

NodeJSInstaller_run == run("cli.nodejs", "installNode", loc.ret.installed, TRUE)
NginxInstaller_run == run("cli.nginx", "installNginx", loc.ret.installed, TRUE)
\* the run exits with status 1 when tools are still missing
BasicToolsInstaller_run_Exits == run("cli.basicTools", "installTools", loc.ret.allInstalled, TRUE)
BasicToolsInstaller_run == run("cli.basicTools", "installTools", loc.ret.allInstalled, FALSE)
SimpleSSLInstaller_run == run("cli.letsEncrypt", "installSSL", loc.ret.success, FALSE)
StaticWebsiteInstaller_run == run("cli.staticWebsite", "installStatic", loc.ret.success, FALSE)
VSCodeWebInstaller_run == run("cli.vscodeWeb", "installVSCode", loc.ret.success, FALSE)

(***************************************************************************)
(* electron-main.js: the IPC handlers of the GUI                           *)
(***************************************************************************)
\* convertKeyFile: fs.readFileSync(filePath) throws if the file is missing
convertKeyFile == keyExists
\* validateConnectionConfig: the GUI passes host and key path; existsSync
validateConnectionConfig == keyExists

\* the handler returns { success: false, error }
IpcCatch ==
    /\ pc' = "done" /\ exit' = "replyError" /\ stack' = <<>> /\ phase' = "ready"
    /\ UNCHANGED <<awsVars, entry, sel, runNo, prev, keyExists, zipExists, argon2, host, conn, endCalls,
                   netAttempts, res, loc, inflight, faults, cmd>>

\* `finally { conn.end(); }` of a handler, then its reply
IpcFinally(reply) ==
    /\ conn' = "ended" /\ endCalls' = endCalls + 1
    /\ pc' = "done" /\ exit' = reply /\ stack' = <<>> /\ phase' = "ready"
    /\ UNCHANGED <<awsVars, entry, sel, runNo, prev, keyExists, zipExists, argon2, host,
                   netAttempts, res, loc, inflight, faults, cmd>>

\* an IPC handler e whose try block starts at position body
ipcHandler(e, body) ==
    /\ entry = e
    /\ \/ At("ipc") /\ IF convertKeyFile THEN Goto("ipc.validate") ELSE Goto("ipc.catch")
       \/ At("ipc.validate") /\ IF validateConnectionConfig
                                THEN Call("connect", body, "ipc.catch")
                                ELSE Goto("ipc.catch")
       \/ At("ipc.finally") /\ IpcFinally("reply")
       \/ At("ipc.rethrow") /\ IpcFinally("replyError")
       \/ At("ipc.catch") /\ IpcCatch

check_nodejs ==
    \/ ipcHandler("gui.check-nodejs", "check.body")
    \/ At("check.body") /\ Call("checkNode.node", "ipc.finally", "ipc.rethrow")

install_nodejs ==
    \/ ipcHandler("gui.install-nodejs", "install.body")
    \/ At("install.body") /\ Call("installNode", "ipc.finally", "ipc.rethrow")

\* the Node.js step lets the facade's error escape to the handler
install_selected_nodejs_Uncaught ==
    At("sel.nodejs") /\
          IF "nodejs" \in sel THEN Call("installNode", "sel.nodejs.result", "ipc.rethrow")
          ELSE Goto("sel.nginx")

\* 1. Install Node.js if selected: try { results.nodejs = await ... } catch { progress-update }
install_selected_nodejs ==
    At("sel.nodejs") /\
          IF "nodejs" \in sel THEN Call("installNode", "sel.nodejs.result", "sel.nginx")
          ELSE Goto("sel.nginx")

\* `results.<target> = <value>`, then the step at position l
Record(t, kind, l) == Ctl(l, stack, [loc EXCEPT !.recorded[t] = kind, !.ret = NoValue])

install_selected ==
    \/ ipcHandler("gui.install-selected", "sel.nodejs")
    \/ install_selected_nodejs
    \/ At("sel.nodejs.result") /\ Record("nodejs", "value", "sel.nginx")
    \/ At("sel.nginx") /\
          IF "nginx" \in sel THEN Call("installNginx", "sel.nginx.result", "sel.basicTools")
          ELSE Goto("sel.basicTools")
    \/ At("sel.nginx.result") /\
          Ctl("sel.basicTools", stack, [loc EXCEPT !.results.nginx = loc.ret.installed,
                                                   !.recorded["nginx"] = "value", !.ret = NoValue])
    \/ At("sel.basicTools") /\
          IF "basicTools" \in sel THEN Call("installTools", "sel.basicTools.result", "sel.letsEncrypt")
          ELSE Goto("sel.letsEncrypt")
    \/ At("sel.basicTools.result") /\
          Ctl("sel.letsEncrypt", stack, [loc EXCEPT !.results.basicTools = loc.ret.allInstalled,
                                                    !.recorded["basicTools"] = "value", !.ret = NoValue])
    \/ At("sel.letsEncrypt") /\
          IF "letsEncrypt" \in sel /\ loc.results.nginx
          THEN Call("installSSL", "sel.letsEncrypt.result", "sel.staticWebsite")
          ELSE Goto("sel.staticWebsite")
    \/ At("sel.letsEncrypt.result") /\ Record("letsEncrypt", "value", "sel.staticWebsite")
    \/ At("sel.staticWebsite") /\
          IF "staticWebsite" \in sel /\ loc.results.nginx /\ loc.results.basicTools
          THEN Goto("sel.doubleCheck")
          ELSE Goto("sel.vscodeWeb")
    \/ Exec("sel.doubleCheck", "command -v nginx >/dev/null 2>&1 && nginx -v 2>&1 | head -1",
            LAMBDA r : Call("installStatic", "sel.staticWebsite.result", "sel.vscodeWeb"))
    \/ At("sel.staticWebsite.result") /\ Record("staticWebsite", "value", "sel.vscodeWeb")
    \/ At("sel.vscodeWeb") /\
          IF "vscodeWeb" \in sel THEN Call("vs.ssl", "sel.freshSSLCheck", "sel.freshSSLCheck")
          ELSE Goto("ipc.finally")
    \/ At("sel.freshSSLCheck") /\
          IF loc.ret.hasSSL THEN Call("installVSCode", "sel.vscodeWeb.result", "sel.vscodeWeb.catch")
          ELSE Record("vscodeWeb", "error", "ipc.finally")
    \/ At("sel.vscodeWeb.result") /\ Record("vscodeWeb", "value", "ipc.finally")
    \/ At("sel.vscodeWeb.catch") /\ Record("vscodeWeb", "error", "ipc.finally")

CliEntries == {"cli.nodejs", "cli.nginx", "cli.basicTools", "cli.letsEncrypt", "cli.staticWebsite",
               "cli.vscodeWeb"}
GuiEntries == {"gui.check-nodejs", "gui.install-nodejs", "gui.install-selected"}
Entries == CliEntries \cup GuiEntries
StartOf(e) == IF e \in CliEntries THEN "run" ELSE "ipc"
\* config.installOptions of the GUI
\* the static website is installed only after Nginx and the tool bundle
StaticStack == {"nginx", "basicTools", "staticWebsite"}
\* VS Code Web needs the certificate, which is obtained only after Nginx
CertificateStack == {"nginx", "letsEncrypt", "vscodeWeb"}
Selections == { s \in SUBSET Targets : Cardinality(s) <= MaxSelected } \cup
              {StaticStack, CertificateStack}

\* the operator invokes the same entry point again, on the host as it now is
Reinvoke ==
    /\ pc = "done"
    /\ runNo < MaxRuns
    /\ entry # "gui.install-selected"
    /\ runNo' = runNo + 1
    /\ prev' = [outcome |-> loc.outcome, exit |-> exit, faults |-> faults]
    /\ conn' = "none" /\ endCalls' = 0 /\ netAttempts' = 0
    /\ pc' = StartOf(entry) /\ stack' = <<>> /\ phase' = "ready"
    /\ loc' = InitLoc /\ cmd' = NoCmd /\ exit' = "none"
    /\ UNCHANGED <<awsVars, entry, sel, keyExists, zipExists, argon2, host, res, inflight, faults>>

Init ==
    /\ entry \in Entries
    /\ sel \in IF entry = "gui.install-selected" THEN Selections ELSE {{}}
    /\ runNo = 1
    /\ prev = [outcome |-> NoOutcome, exit |-> "none", faults |-> 0]
    /\ keyExists \in BOOLEAN
    /\ zipExists \in IF entry = "cli.staticWebsite" THEN BOOLEAN ELSE {TRUE}
    /\ argon2 \in IF entry = "cli.vscodeWeb" THEN BOOLEAN ELSE {TRUE}
    /\ host = [f \in Facts |-> U]
    /\ conn = "none" /\ endCalls = 0 /\ netAttempts = 0
    /\ pc = StartOf(entry) /\ stack = <<>> /\ phase = "ready"
    /\ res = NoResult
    /\ loc = InitLoc
    /\ inflight = 0 /\ faults = 0 /\ cmd = NoCmd /\ exit = "none"
    /\ mode = "none" /\ argv = NoArgs /\ ec2 = NoAccount /\ creator = NoFields
    /\ frame = NoFrame /\ sent = <<>> /\ answer = "" /\ cwd = {}
    /\ renderer = NoRenderer

Next ==
    \/ StreamClose
    \/ connect
    \/ checkNodeJSInstalled
    \/ installNodeJS
    \/ installNodeJS_sequence
    \/ checkNginxInstalled
    \/ installNginx
    \/ checkBasicToolsInstalled
    \/ installBasicTools
    \/ testDomainReachability
    \/ installCertbot
    \/ createRenewalHook
    \/ obtainSSLCertificate
    \/ installLetsEncrypt
    \/ StaticWebsiteInstaller_checkNginxInstalled
    \/ StaticWebsiteInstaller_checkSSLStatus
    \/ cleanExistingInstallation
    \/ uploadZipFile
    \/ extractZipFile
    \/ createNginxConfig
    \/ installStaticWebsite
    \/ checkSSLStatus
    \/ installGit
    \/ createWebrootDirectory
    \/ installCodeServer
    \/ generateHashedPassword
    \/ createCodeServerConfig
    \/ updateNginxConfig
    \/ installVSCodeWeb
    \/ NodeJSInstaller_run
    \/ NginxInstaller_run
    \/ BasicToolsInstaller_run
    \/ SimpleSSLInstaller_run
    \/ StaticWebsiteInstaller_run
    \/ VSCodeWebInstaller_run
    \/ check_nodejs
    \/ install_nodejs
    \/ install_selected
    \/ Reinvoke

Spec == Init /\ [][Next]_vars

(***************************************************************************)
(* createInstanceScripts/create-aws-instance.js: AWSInstanceCreator        *)
(***************************************************************************)
\* const maxAttempts = 60 of waitForInstanceReady
waitForInstanceReady_maxAttempts == 60
\* const maxAttempts = 30 of waitForInstanceTermination
waitForInstanceTermination_maxAttempts == 30

\* the resources of the model: one instance, one key pair and one security
\* group of the script, and the default security group of the VPC
TheInstance == "i-1"
TheKeyPair == "debian-trixie-1"
TheGroup == "sg-1"
DefaultGroup == "sg-default"
PublicIpAddress == "203.0.113.7"
GroupName(id) == IF id = DefaultGroup THEN "default" ELSE "debian-trixie-sg-1"

\* what no step of create-aws-instance.js changes
installerVars == <<entry, sel, runNo, prev, keyExists, zipExists, argon2, host, conn, endCalls,
                   netAttempts, stack, phase, res, loc, inflight, cmd, renderer>>

\* a step of the script: the next position, the object's fields, the locals,
\* the account, the requests sent so far and the request failures so far
AwsStepFiles(l, cr, fr, acct, snt, flt, files) ==
    /\ pc' = l /\ creator' = cr /\ frame' = fr /\ ec2' = acct /\ sent' = snt /\ faults' = flt
    /\ cwd' = files
    /\ UNCHANGED <<installerVars, mode, argv, answer, exit>>

\* a step that leaves the working directory alone
AwsStep(l, cr, fr, acct, snt, flt) == AwsStepFiles(l, cr, fr, acct, snt, flt, cwd)

AwsGoto(l) == AwsStep(l, creator, frame, ec2, sent, faults)

Request(op, id) == [op |-> op, id |-> id]
\* `await this.ec2Client.send(command)` rejects: the request did not get
\* through (at most MaxFaults requests of a run are lost)
CanFail == faults < MaxFaults
\* the throw of a step of runCreate, caught in runCreate
CreateFailed(step, cr, snt, flt) ==
    AwsStep("runCreate.catch", cr, [frame EXCEPT !.error = step], ec2, snt, flt)

createKeyPair ==
    /\ At("createKeyPair")
    /\ LET cr == [creator EXCEPT !.keyPairName = TheKeyPair]
           snt == Append(sent, Request("CreateKeyPair", TheKeyPair))
       IN  \/ AwsStep("createSecurityGroup", cr, [frame EXCEPT !.created = @ \cup {TheKeyPair}],
                      [ec2 EXCEPT !.keys = @ \cup {TheKeyPair}], snt, faults)
           \/ CanFail /\ CreateFailed("createKeyPair", cr, snt, faults + 1)

\* getDefaultVpcId swallows its errors; then CreateSecurityGroup
createSecurityGroup ==
    /\ At("createSecurityGroup")
    /\ LET snt == Append(sent, Request("CreateSecurityGroup", TheGroup))
       IN  \/ AwsStep("addSecurityGroupRules", [creator EXCEPT !.securityGroupId = TheGroup],
                      [frame EXCEPT !.created = @ \cup {TheGroup}],
                      [ec2 EXCEPT !.groups = @ \cup {TheGroup}], snt, faults)
           \/ CanFail /\ CreateFailed("createSecurityGroup", creator, snt, faults + 1)

addSecurityGroupRules ==
    /\ At("addSecurityGroupRules")
    /\ LET snt == Append(sent, Request("AuthorizeSecurityGroupIngress", creator.securityGroupId))
       IN  \/ AwsStep("createInstance", creator, frame, ec2, snt, faults)
           \/ CanFail /\ CreateFailed("addSecurityGroupRules", creator, snt, faults + 1)

createInstance ==
    /\ At("createInstance")
    /\ LET snt == Append(sent, Request("RunInstances", TheInstance))
       IN  \/ AwsStep("waitForInstanceReady", [creator EXCEPT !.instanceId = TheInstance],
                      [frame EXCEPT !.created = @ \cup {TheInstance}],
                      [ec2 EXCEPT !.instance = "pending"], snt, faults)
           \/ CanFail /\ CreateFailed("createInstance", creator, snt, faults + 1)

\* the loop goes on although the attempt ceiling is reached
PollAgainWithoutCeiling(f) == ~f.instanceRunning

\* while (!instanceRunning && attempts < maxAttempts)
PollAgain(f) == ~f.instanceRunning /\ f.attempts < waitForInstanceReady_maxAttempts

\* every state the API reports ends the wait
IsRunningWhateverState(state) == TRUE

\* instance.State.Name === 'running'
IsRunning(state) == state = "running"

waitForInstanceReady ==
    \/ At("waitForInstanceReady") /\
          AwsStep("waitForInstanceReady.while", creator,
                  [frame EXCEPT !.attempts = 0, !.instanceRunning = FALSE], ec2, sent, faults)
    \/ At("waitForInstanceReady.while") /\
          IF PollAgain(frame)
          THEN LET polled == [frame EXCEPT !.polls = @ + 1]
               IN  \/ IF IsRunning(ec2.instance)
                      THEN AwsStep("waitForInstanceReady.after",
                                   [creator EXCEPT !.instanceIp = PublicIpAddress],
                                   [polled EXCEPT !.instanceRunning = TRUE], ec2, sent, faults)
                      ELSE \* sleep(5000); attempts++
                           AwsStep("waitForInstanceReady.while", creator,
                                   [polled EXCEPT !.attempts = @ + 1, !.notRunning = @ + 1],
                                   ec2, sent, faults)
                   \/ CanFail /\ AwsStep("runCreate.catch", creator,
                                         [polled EXCEPT !.error = "DescribeInstances"],
                                         ec2, sent, faults + 1)
          ELSE AwsGoto("waitForInstanceReady.after")
    \/ At("waitForInstanceReady.after") /\
          IF ~frame.instanceRunning
          THEN CreateFailed("Timeout waiting for instance to become ready", creator, sent, faults)
          ELSE AwsGoto("saveKeyPair")

\* keyFileName = `${this.instanceIp}.pem`
keyFileName(ip) == ip \o ".pem"

\* fs.writeFileSync may throw; then the summary is logged and run() returns
saveKeyPair ==
    /\ At("saveKeyPair")
    /\ \/ AwsStepFiles("run.returned", creator, frame, ec2, sent, faults,
                       cwd \cup {keyFileName(creator.instanceIp)})
       \/ CanFail /\ CreateFailed("saveKeyPair", creator, sent, faults + 1)

\* the account answers DeleteSecurityGroup with DependencyViolation while an
\* instance that is not terminated uses the group, and never deletes a default group
CanDeleteGroup(acct, id) ==
    /\ id \in acct.groups /\ GroupName(id) # "default"
    /\ id = TheGroup => acct.instance \in {"none", "terminated"}
CanTerminate(acct, id) == id = TheInstance /\ acct.instance # "none"
Terminated(acct) ==
    [acct EXCEPT !.instance = IF @ \in {"pending", "running"} THEN "shutting-down" ELSE @]

\* one try block around the three requests: the first that fails ends the cleanup
cleanupOnFailure ==
    \/ At("cleanupOnFailure") /\
          IF creator.instanceId # ""
          THEN LET snt == Append(sent, Request("TerminateInstances", creator.instanceId))
               IN  \/ CanTerminate(ec2, creator.instanceId) /\
                         AwsStep("cleanupOnFailure.group", creator, frame, Terminated(ec2), snt, faults)
                   \/ (CanFail \/ ~CanTerminate(ec2, creator.instanceId)) /\
                         AwsStep("cleanupOnFailure.catch", creator, frame, ec2, snt,
                                 IF CanTerminate(ec2, creator.instanceId) THEN faults + 1 ELSE faults)
          ELSE AwsGoto("cleanupOnFailure.group")
    \/ At("cleanupOnFailure.group") /\
          IF creator.securityGroupId # ""
          THEN LET id == creator.securityGroupId
                   snt == Append(sent, Request("DeleteSecurityGroup", id))
               IN  \/ CanDeleteGroup(ec2, id) /\
                         AwsStep("cleanupOnFailure.keyPair", creator, frame,
                                 [ec2 EXCEPT !.groups = @ \ {id}], snt, faults)
                   \/ (CanFail \/ ~CanDeleteGroup(ec2, id)) /\
                         AwsStep("cleanupOnFailure.catch", creator, frame, ec2, snt,
                                 IF CanDeleteGroup(ec2, id) THEN faults + 1 ELSE faults)
          ELSE AwsGoto("cleanupOnFailure.keyPair")
    \/ At("cleanupOnFailure.keyPair") /\
          IF creator.keyPairName # ""
          THEN LET snt == Append(sent, Request("DeleteKeyPair", creator.keyPairName))
               IN  \/ AwsStep("runCreate.rethrow", creator, frame,
                              [ec2 EXCEPT !.keys = @ \ {creator.keyPairName}], snt, faults)
                   \/ CanFail /\ AwsStep("cleanupOnFailure.catch", creator, frame, ec2, snt, faults + 1)
          ELSE AwsGoto("runCreate.rethrow")
    \* catch (cleanupError) { this.log(...) }
    \/ At("cleanupOnFailure.catch") /\ AwsGoto("runCreate.rethrow")

\* catch (error) { log; await this.cleanupOnFailure(); throw error; }
runCreate ==
    \/ At("runCreate") /\ AwsGoto("createKeyPair")
    \/ At("runCreate.catch") /\ AwsGoto("cleanupOnFailure")
    \/ At("runCreate.rethrow") /\
          AwsStep("run.failed", creator, [frame EXCEPT !.reported = frame.error], ec2, sent, faults)

\* the account goes on by itself: a pending instance gets running, one that
\* is shutting down gets terminated
Ec2Progress ==
    /\ ec2.instance \in {"pending", "shutting-down"}
    /\ ec2' = [ec2 EXCEPT !.instance = IF @ = "pending" THEN "running" ELSE "terminated"]
    /\ UNCHANGED <<installerVars, pc, exit, faults, mode, argv, creator, frame, sent, answer, cwd>>

\* `instanceId || this.instanceId` and so on, then the body of cleanupResources at
\* position "cleanupResources"; ret is where the caller goes on, fr its locals
CallCleanup(i, k, s, ret, fr) ==
    AwsStep("cleanupResources", creator,
            [fr EXCEPT !.target = [instance |-> IF i # "" THEN i ELSE creator.instanceId,
                                   keypair |-> IF k # "" THEN k ELSE creator.keyPairName,
                                   securityGroup |-> IF s # "" THEN s ELSE creator.securityGroupId],
                       !.ret = ret, !.wait = "none", !.deleted = FALSE],
            ec2, sent, faults)

\* no security group is taken for the default one
IsDefaultGroupNever(name) == FALSE

\* checkResponse.SecurityGroups[0].GroupName === 'default'
IsDefaultGroup(name) == name = "default"

\* every state the API reports is taken for terminated
IsTerminatedWhateverState(state) == TRUE

\* state === 'terminated'
IsTerminated(state) == state = "terminated"

WaitEnded(how, flt) ==
    AwsStep("cleanupResources.group", creator, [frame EXCEPT !.wait = how], ec2, sent, flt)

waitForInstanceTermination ==
    /\ At("waitForInstanceTermination")
    /\ IF frame.attempts < waitForInstanceTermination_maxAttempts
       THEN \/ IF IsTerminated(ec2.instance)
               THEN WaitEnded("terminated", faults)
               ELSE \* sleep(10000); attempts++
                    AwsStep("waitForInstanceTermination", creator,
                            [frame EXCEPT !.attempts = @ + 1], ec2, sent, faults)
            \* catch: 'Instance appears to be terminated'
            \/ CanFail /\ WaitEnded("error", faults + 1)
       \* 'Instance termination taking longer than expected, but continuing cleanup...'
       ELSE WaitEnded("ceiling", faults)

\* the key file saveKeyPair wrote for another instance of the script
OtherKeyFile == "198.51.100.9.pem"

\* file.includes(keyPairName)
Includes(file, keyPairName) == file = keyPairName \o ".pem"
\* /^\d+\.\d+\.\d+\.\d+\.pem$/.test(file)
IsIpNamed(file) == file \in {keyFileName(PublicIpAddress), OtherKeyFile}

\* the files findLocalKeyFile may return (null is ""): pemFiles.find takes the
\* first match in the order of fs.readdirSync, which the code does not fix
findLocalKeyFile(files, keyPairName) ==
    LET byName == {f \in files : Includes(f, keyPairName)}
        byIp == {f \in files : IsIpNamed(f)}
    IN  IF byName # {} THEN byName
        ELSE IF byIp # {} THEN byIp ELSE {""}

cleanupResources ==
    \/ At("cleanupResources") /\
          IF frame.target.instance # ""
          THEN LET id == frame.target.instance
                   snt == Append(sent, Request("TerminateInstances", id))
               IN  \/ CanTerminate(ec2, id) /\
                         AwsStep("waitForInstanceTermination", creator,
                                 [frame EXCEPT !.attempts = 0], Terminated(ec2), snt, faults)
                   \/ (CanFail \/ ~CanTerminate(ec2, id)) /\
                         AwsStep("cleanupResources.group", creator,
                                 [frame EXCEPT !.wait = "rejected"], ec2, snt,
                                 IF CanTerminate(ec2, id) THEN faults + 1 ELSE faults)
          ELSE AwsGoto("cleanupResources.group")
    \* DescribeSecurityGroups of the group: `return` if it is the default group
    \* or cannot be described
    \/ At("cleanupResources.group") /\
          IF frame.target.securityGroup # ""
          THEN LET id == frame.target.securityGroup
               IN  \/ id \in ec2.groups /\
                         IF IsDefaultGroup(GroupName(id)) THEN AwsGoto(frame.ret)
                         ELSE AwsGoto("cleanupResources.deleteGroup")
                   \/ (CanFail \/ id \notin ec2.groups) /\
                         AwsStep(frame.ret, creator, frame, ec2, sent,
                                 IF id \in ec2.groups THEN faults + 1 ELSE faults)
          ELSE AwsGoto("cleanupResources.keyPair")
    \/ At("cleanupResources.deleteGroup") /\
          LET id == frame.target.securityGroup
              snt == Append(sent, Request("DeleteSecurityGroup", id))
          IN  \/ CanDeleteGroup(ec2, id) /\
                    AwsStep("cleanupResources.keyPair", creator, [frame EXCEPT !.deleted = TRUE],
                            [ec2 EXCEPT !.groups = @ \ {id}], snt, faults)
              \/ (CanFail \/ ~CanDeleteGroup(ec2, id)) /\
                    AwsStep("cleanupResources.keyPair", creator, [frame EXCEPT !.deleted = TRUE],
                            ec2, snt,
                            IF CanDeleteGroup(ec2, id) THEN faults + 1 ELSE faults)
    \/ At("cleanupResources.keyPair") /\
          IF frame.target.keypair # ""
          THEN LET id == frame.target.keypair
                   snt == Append(sent, Request("DeleteKeyPair", id))
                   del == [frame EXCEPT !.deleted = TRUE]
               IN  \* DeleteKeyPair, then findLocalKeyFile and fs.unlinkSync
                   \/ \E f \in findLocalKeyFile(cwd, id) :
                         AwsStepFiles(frame.ret, creator,
                                      [del EXCEPT !.removed = IF f = "" THEN @ ELSE @ \cup {f}],
                                      [ec2 EXCEPT !.keys = @ \ {id}], snt, faults, cwd \ {f})
                   \/ CanFail /\ AwsStep(frame.ret, creator, del, ec2, snt, faults + 1)
          ELSE AwsGoto(frame.ret)

RECURSIVE SeqOf(_)
SeqOf(S) == IF S = {} THEN <<>> ELSE LET x == CHOOSE y \in S : TRUE IN <<x>> \o SeqOf(S \ {x})

\* Filters: description 'Security group for Debian Trixie instance*'
HasScriptDescription(id) == id = TheGroup

\* three Describe requests in one try block; on an error nothing is found
findExistingResources ==
    /\ At("findExistingResources")
    /\ \/ AwsStep("runCleanup.found", creator,
                  [frame EXCEPT !.resources =
                      [instances |-> IF ec2.instance \in {"running", "pending", "stopped"}
                                     THEN <<TheInstance>> ELSE <<>>,
                       keyPairs |-> SeqOf({k \in ec2.keys : k = TheKeyPair}),
                       securityGroups |-> SeqOf({g \in ec2.groups :
                                                   HasScriptDescription(g) /\ GroupName(g) # "default"})]],
                  ec2, sent, faults)
       \/ CanFail /\ AwsStep("runCleanup.found", creator, [frame EXCEPT !.resources = NoResources],
                             ec2, sent, faults + 1)

\* Object.keys(cleanupArgs).length > 0 ? cleanupArgs : null
parseCleanupArgs(a) == a.instance # "" \/ a.keypair # "" \/ a.securityGroup # ""

\* what the operator may type at the prompt, and answer.toLowerCase()
Answers == {"y", "YES", "n", ""}
toLowerCase(a) == IF a = "YES" THEN "yes" ELSE a

runCleanup ==
    \/ At("runCleanup") /\
          IF parseCleanupArgs(argv)
          THEN CallCleanup(argv.instance, argv.keypair, argv.securityGroup, "runCleanup.return", frame)
          ELSE AwsGoto("findExistingResources")
    \/ At("runCleanup.found") /\
          IF /\ Len(frame.resources.instances) = 0 /\ Len(frame.resources.keyPairs) = 0
             /\ Len(frame.resources.securityGroups) = 0
          THEN AwsGoto("runCleanup.return")
          ELSE IF ~argv.yes THEN AwsGoto("runCleanup.question")
          ELSE AwsGoto("runCleanup.instances")
    \/ /\ At("runCleanup.question")
       /\ \E a \in Answers :
             /\ answer' = toLowerCase(a)
             /\ pc' = IF answer' # "y" /\ answer' # "yes" THEN "runCleanup.return"
                      ELSE "runCleanup.instances"
       /\ frame' = [frame EXCEPT !.prompted = TRUE]
       /\ UNCHANGED <<installerVars, exit, faults, mode, argv, ec2, creator, sent, cwd>>
    \/ At("runCleanup.instances") /\
          IF Len(frame.resources.instances) > 0
          THEN CallCleanup(Head(frame.resources.instances), "", "", "runCleanup.instances",
                           [frame EXCEPT !.resources.instances = Tail(@)])
          ELSE AwsGoto("runCleanup.keyPairs")
    \/ At("runCleanup.keyPairs") /\
          IF Len(frame.resources.keyPairs) > 0
          THEN CallCleanup("", Head(frame.resources.keyPairs), "", "runCleanup.keyPairs",
                           [frame EXCEPT !.resources.keyPairs = Tail(@)])
          ELSE AwsGoto("runCleanup.securityGroups")
    \/ At("runCleanup.securityGroups") /\
          IF Len(frame.resources.securityGroups) > 0
          THEN CallCleanup("", "", Head(frame.resources.securityGroups), "runCleanup.securityGroups",
                           [frame EXCEPT !.resources.securityGroups = Tail(@)])
          ELSE AwsGoto("runCleanup.return")
    \/ At("runCleanup.return") /\ AwsGoto("run.returned")

\* how run() ends: normally, or with process.exit(1) in its catch block
AwsExit(e) ==
    /\ pc' = "done" /\ exit' = e
    /\ UNCHANGED <<installerVars, faults, mode, argv, ec2, creator, frame, sent, answer, cwd>>

AWSInstanceCreator_run ==
    \/ At("AWSInstanceCreator.run") /\
          IF ~argv.credentials
          THEN AwsStep("run.failed", creator,
                       [frame EXCEPT !.error = "Missing required environment variables",
                                     !.reported = "Missing required environment variables"],
                       ec2, sent, faults)
          ELSE IF mode = "cleanup" THEN AwsGoto("runCleanup") ELSE AwsGoto("runCreate")
    \/ At("run.returned") /\ AwsExit("ok")
    \/ At("run.failed") /\ AwsExit("exit1")

\* process.argv and the account the script is run against
AwsArguments(m) ==
    IF m = "create" THEN { [NoArgs EXCEPT !.credentials = c] : c \in BOOLEAN }
    ELSE [credentials : BOOLEAN, yes : BOOLEAN, instance : {"", TheInstance},
          keypair : {"", TheKeyPair}, securityGroup : {"", TheGroup, DefaultGroup}]
AwsAccounts(m) ==
    IF m = "create" THEN { [NoAccount EXCEPT !.groups = {DefaultGroup}] }
    ELSE [instance : {"none", "running"}, groups : {{DefaultGroup}, {DefaultGroup, TheGroup}},
          keys : {{}, {TheKeyPair}}]

\* the key files in the directory the script is started in: of this instance,
\* of another instance, and one the operator named after the key pair
WorkingDirectories(m) ==
    IF m = "create" THEN {{}, {OtherKeyFile}}
    ELSE SUBSET {keyFileName(PublicIpAddress), OtherKeyFile, TheKeyPair \o ".pem"}

InitAWS ==
    /\ entry = "aws" /\ sel = {} /\ runNo = 1
    /\ prev = [outcome |-> NoOutcome, exit |-> "none", faults |-> 0]
    /\ keyExists = FALSE /\ zipExists = TRUE /\ argon2 = TRUE
    /\ host = [f \in Facts |-> U]
    /\ conn = "none" /\ endCalls = 0 /\ netAttempts = 0
    /\ pc = "AWSInstanceCreator.run" /\ stack = <<>> /\ phase = "ready"
    /\ res = NoResult /\ loc = InitLoc
    /\ inflight = 0 /\ faults = 0 /\ cmd = NoCmd /\ exit = "none"
    /\ mode \in {"create", "cleanup"}
    /\ argv \in AwsArguments(mode)
    /\ ec2 \in AwsAccounts(mode)
    /\ creator = NoFields /\ frame = NoFrame /\ sent = <<>> /\ answer = ""
    /\ cwd \in WorkingDirectories(mode)
    /\ renderer = NoRenderer

NextAWS ==
    \/ AWSInstanceCreator_run
    \/ runCreate
    \/ createKeyPair
    \/ createSecurityGroup
    \/ addSecurityGroupRules
    \/ createInstance
    \/ waitForInstanceReady
    \/ saveKeyPair
    \/ cleanupOnFailure
    \/ runCleanup
    \/ findExistingResources
    \/ cleanupResources
    \/ waitForInstanceTermination
    \/ Ec2Progress

SpecAWS == InitAWS /\ [][NextAWS]_vars

(***************************************************************************)
(* The renderer process of the GUI: the handlers of the Check and Install  *)
(* buttons and of the keyboard shortcut                                    *)
(***************************************************************************)
\* what no handler of the renderer changes
pageFrame == <<entry, sel, runNo, prev, keyExists, zipExists, argon2, host, conn, endCalls,
               netAttempts, pc, stack, phase, res, loc, inflight, faults, cmd, exit,
               mode, argv, ec2, creator, frame, sent, answer, cwd>>

\* the click handler of button b up to its `await ipcRenderer.invoke(...)`,
\* started by a click or by the shortcut: the page it leaves
Handler(b, how) ==
    IF ~renderer.valid
    THEN \* if (!validateForm()) return;  validateForm has shown the alert
         [renderer EXCEPT !.alert = "danger", !.statusArea = TRUE]
    ELSE IF ~renderer.selected
    THEN \* clearResults, currentOperation = ..., disableButton, then
         \* selectedOptions.length === 0: showAlert, enableButton, currentOperation = null
         [renderer EXCEPT !.alert = "danger", !.statusArea = TRUE, !.logBuffer = <<>>,
                          !.disabled[b] = FALSE, !.currentOperation = "null"]
    ELSE \* clearResults, currentOperation = ..., disableButton, addLog, invoke
         [renderer EXCEPT !.alert = "none", !.statusArea = FALSE, !.logBuffer = <<"started">>,
                          !.disabled[b] = TRUE, !.currentOperation = IF b = "checkBtn" THEN "check" ELSE "install",
                          !.pending[b] = TRUE, !.trigger[b] = how]

\* the operator clicks a button; a disabled button fires no click event
click ==
    \E b \in Buttons :
        /\ ~renderer.disabled[b]
        /\ renderer' = Handler(b, "click")
        /\ UNCHANGED pageFrame

\* Ctrl+Enter / Cmd+Enter (with Shift: check): `if (!currentOperation)`, then
\* the button's click(), which does nothing on a disabled button
keydown ==
    \E shiftKey \in BOOLEAN :
        LET b == IF shiftKey THEN "checkBtn" ELSE "installBtn"
        IN  /\ renderer.currentOperation = "null"
            /\ ~renderer.disabled[b]
            /\ renderer' = Handler(b, "shortcut")
            /\ UNCHANGED pageFrame

\* the invoke of button b's handler settles: try / catch / finally
settled ==
    \E b \in Buttons, how \in {"success", "failure", "rejected"} :
        /\ renderer.pending[b]
        /\ renderer' = [renderer EXCEPT
                            !.logBuffer = Append(@, how),
                            !.alert = IF how # "success" THEN "danger"
                                      ELSE IF b = "installBtn" THEN "success" ELSE @,
                            !.statusArea = TRUE,
                            !.disabled[b] = FALSE,
                            !.currentOperation = "null",
                            !.pending[b] = FALSE]
        /\ UNCHANGED pageFrame

\* the operator edits the form: validateForm and the selected options change
input ==
    \E v, s \in BOOLEAN :
        /\ renderer' = [renderer EXCEPT !.valid = v, !.selected = s]
        /\ UNCHANGED pageFrame

InitGUI ==
    /\ entry = "renderer" /\ sel = {} /\ runNo = 1
    /\ prev = [outcome |-> NoOutcome, exit |-> "none", faults |-> 0]
    /\ keyExists = FALSE /\ zipExists = TRUE /\ argon2 = TRUE
    /\ host = [f \in Facts |-> U]
    /\ conn = "none" /\ endCalls = 0 /\ netAttempts = 0
    /\ pc = "renderer" /\ stack = <<>> /\ phase = "ready"
    /\ res = NoResult /\ loc = InitLoc
    /\ inflight = 0 /\ faults = 0 /\ cmd = NoCmd /\ exit = "none"
    /\ mode = "none" /\ argv = NoArgs /\ ec2 = NoAccount /\ creator = NoFields
    /\ frame = NoFrame /\ sent = <<>> /\ answer = "" /\ cwd = {}
    /\ renderer = NoRenderer

NextGUI ==
    \/ click
    \/ keydown
    \/ settled
    \/ input

SpecGUI == InitGUI /\ [][NextGUI]_vars

(***************************************************************************)
(* Properties.                                                             *)
(***************************************************************************)
\* the facades that start with a probe of their own target
ProbingTargets == {"nodejs", "nginx", "basicTools"}
\* the positions at which run() and install-selected read a facade's result
ResultOf(t) ==
    CASE t = "nodejs" -> {"run.result", "sel.nodejs.result"}
      [] t = "nginx" -> {"run.result", "sel.nginx.result"}
      [] t = "basicTools" -> {"run.result", "sel.basicTools.result"}
      [] OTHER -> {"run.result"}
\* a probe result that reports the target installed
ReportsInstalled(t, v) == IF t = "basicTools" THEN v.allInstalled ELSE v.installed

\* C1: in installNodeJS, installNginx and installBasicTools, when the initial
\* probe reports the target installed (every tool of the bundle present), no
\* mutating command is issued for the target in that call, the facade ends
\* in Skipped, and what it returns is the probe's result.
C1_InstalledProbeSkipsSequence ==
    \A t \in ProbingTargets :
        /\ loc.probe[t] = "installed" => ~loc.mut[t]
        /\ loc.probe[t] = "installed" /\ loc.facade # t => loc.outcome[t] = "skipped"
        /\ loc.outcome[t] = "skipped" => loc.probe[t] = "installed"
        /\ loc.outcome[t] = "skipped" /\ pc \in ResultOf(t) => ReportsInstalled(t, loc.ret)
\* a multi-target run in which Nginx and the tool bundle were both found installed
C1_Witness ==
    /\ loc.outcome["nginx"] = "skipped" /\ loc.outcome["basicTools"] = "skipped"
    /\ ~loc.mut["nginx"] /\ ~loc.mut["basicTools"]
    /\ pc = "done"

\* the sequences the claim names, by the target of their facade
SequencedTargets == {"nodejs", "nginx", "basicTools", "letsEncrypt", "vscodeWeb"}

\* C2: in every installation sequence, once the command of a mutating step
\* has exited non-zero, no later command of that sequence is dispatched.
C2_NonZeroExitStopsSequence ==
    \A t \in SequencedTargets : ~(loc.facade = t /\ loc.failed /\ phase = "busy")

\* a facade succeeded: its sequence was verified, or it found the target installed
Succeeded == {"verified", "skipped"}
\* the second invocation runs against the host as the first one left it, and
\* no command of it is lost to a transport failure
SecondRun == runNo = 2 /\ faults = prev.faults
\* the same, and no command of the first invocation was lost either
CleanSecondRun == runNo = 2 /\ faults = 0

\* C3 as stated: for every facade, a second invocation right after a first
\* successful one, against the unchanged host, issues no mutating command.
C3_EveryFacadeIdempotent ==
    \A t \in Targets : CleanSecondRun /\ prev.outcome[t] \in Succeeded => ~loc.mut[t]
\* C3 as amended: the second invocation issues no mutating command for
\* Node.js and for the tool bundle, and for Nginx when the first invocation
\* found Nginx installed; it ends in Skipped.
C3_ProbedFacadesIdempotent ==
    \A t \in ProbingTargets :
        SecondRun /\ prev.outcome[t] \in (IF t = "nginx" THEN {"skipped"} ELSE Succeeded)
            => /\ ~loc.mut[t]
               /\ loc.outcome[t] \in {"none", "skipped"}
\* the tool bundle was installed by the first invocation and is skipped by the second
C3_Witness ==
    /\ SecondRun /\ prev.outcome["basicTools"] = "verified"
    /\ loc.outcome["basicTools"] = "skipped" /\ pc = "done"

\* C4 as stated: the first command of every facade is a probe of its own
\* target, and no mutating command is issued before the target was probed.
C4_EveryFacadeProbesFirst ==
    \A t \in Targets : loc.first[t] \in {"none", "probe"} /\ ~loc.early[t]
\* C4 as amended: the same of installNodeJS, installNginx and installBasicTools.
C4_ProbingFacadesProbeFirst ==
    \A t \in ProbingTargets :
        /\ loc.first[t] \in {"none", "probe"}
        /\ ~loc.early[t]
        /\ loc.mut[t] => loc.probed[t] /\ loc.probe[t] = "missing"
\* Nginx was probed, found missing, and its sequence has issued a mutating command
C4_Witness ==
    /\ loc.facade = "nginx" /\ loc.first["nginx"] = "probe"
    /\ loc.mut["nginx"] /\ phase = "busy" /\ Mutating(cmd.c)

\* C5: after a facade ended in Verified, the prober of its target, run next
\* on the unchanged host, reports the target installed.
C5_VerifiedThenProbeInstalled ==
    \A t \in ProbingTargets :
        CleanSecondRun /\ prev.outcome[t] = "verified" => loc.probe[t] # "missing"

\* the facades whose sequence ends with a verification of the target
VerifyingTargets == {"nodejs", "nginx", "basicTools"}

\* C6 as stated: when the verification after a completed sequence still
\* finds the target (or a tool of the bundle) missing, the CLI run ends as a
\* failure (stated of the runs in which no command was lost).
C6_UnverifiedRunFails ==
    \A t \in VerifyingTargets :
        entry \in CliEntries /\ pc = "done" /\ faults = 0 /\ loc.outcome[t] = "unverified"
            => exit = "exit1"
\* C6 as amended: after a failed verification installNodeJS and installNginx
\* throw and their CLI run exits with status 1; installBasicTools returns the
\* re-probe result, which is not allInstalled, and BasicToolsInstaller.run
\* closes the session and ends normally.
C6_UnverifiedToolsRunCompletes ==
    /\ \A t \in {"nodejs", "nginx"} :
          entry \in CliEntries /\ pc = "done" /\ loc.outcome[t] = "unverified"
              => exit = "exit1" /\ ~loc.ret.installed
    /\ loc.outcome["basicTools"] = "unverified" /\ pc \in ResultOf("basicTools")
          => ~loc.ret.allInstalled /\ Len(loc.ret.missing) > 0
    /\ entry \in CliEntries /\ pc = "done" /\ loc.outcome["basicTools"] = "unverified"
          => exit = "ok" /\ conn = "ended" /\ endCalls = 1
\* the CLI run of the tool bundle has ended after a failed verification
C6_Witness ==
    entry = "cli.basicTools" /\ pc = "done" /\ loc.outcome["basicTools"] = "unverified"

\* C7: a run that opened an SSH session has called the session's end()
\* exactly once when it ends.
C7_SessionEndedExactlyOnce ==
    /\ pc = "done" /\ conn # "none" => endCalls = 1 /\ conn = "ended"
    /\ endCalls <= 1

\* C8: the promise of executeCommand is rejected if and only if the
\* transport failed (the command could not be dispatched, or its channel
\* died); a command that ran is resolved with its exit status.
C8_RejectedIffTransportFailure ==
    phase = "settled" =>
        /\ Rejected(res) <=> res.lost
        /\ ~Rejected(res) => res.kind = "resolved" /\ res.exit \in {0, 1}

\* C9: at most one command of a run is in flight: a command is dispatched
\* only when the stream of the previous one has closed, also from one
\* target of a multi-target run to the next.
C9_OneCommandInFlight ==
    /\ inflight \in {0, 1}
    /\ inflight = 1 <=> phase = "busy"
    /\ inflight = 1 <=> cmd # NoCmd
    /\ phase = "settled" => res.kind # "none"
\* a command of the second target of a multi-target run is in flight
C9_Witness ==
    /\ entry = "gui.install-selected" /\ inflight = 1
    /\ loc.facade = "basicTools" /\ loc.outcome["nginx"] # "none"

\* C10: without the private key file no network connection is attempted:
\* connect() rejects before the client's connect is called, the GUI handlers
\* fail before they call connect(), no command is issued and the invocation
\* ends as a failure.
C10_NoKeyNoConnection ==
    ~keyExists =>
        /\ netAttempts = 0 /\ conn = "none" /\ endCalls = 0
        /\ inflight = 0 /\ cmd = NoCmd /\ phase = "ready" /\ res = NoResult
        /\ entry \in GuiEntries => pc \notin {"ipc.validate", "connect"}
        /\ pc = "done" => exit \in {"exit1", "replyError"}
\* connect() of a CLI run has just rejected for the missing key file
C10_Witness ==
    ~keyExists /\ pc = "run.catch" /\ netAttempts = 0

\* C11: when the initial probe of the tool bundle reports a non-empty list of
\* missing tools, installBasicTools issues one package-manager install command
\* and no second one, and the packages it names are exactly the packages of
\* the tools reported missing, in the order of the report: none of a tool
\* reported present.
InstallCmd == "sudo apt install -y $packagesToInstall"
ReportedMissing == {loc.check.missing[i] : i \in 1..Len(loc.check.missing)}
C11_InstallsExactlyTheMissing ==
    /\ loc.installs <= 1
    /\ cmd.c = InstallCmd =>
          /\ loc.facade = "basicTools" /\ loc.installs = 1
          /\ ReportedMissing # {}
          /\ Len(cmd.a) = Len(loc.check.missing)
          /\ \A i \in 1..Len(cmd.a) : cmd.a[i] = getPackageName(loc.check.missing[i])
          /\ \A i \in 1..Len(Tools) :
                Tools[i] \notin ReportedMissing =>
                    \A j \in 1..Len(cmd.a) : cmd.a[j] # getPackageName(Tools[i])
    /\ pc \in {"installTools.install", "installTools.final"} =>
          ReportedMissing # {} /\ loc.probe["basicTools"] = "missing"
    /\ pc = "installTools.final" => loc.installs = 1

C11_Witness ==
    /\ cmd.c = InstallCmd /\ cmd.a = <<"vim-nox">> /\ loc.check.missing = <<"vim">>
    /\ phase = "busy" /\ loc.installs = 1

\* C12: on a host without the web server (no fact of the host says Nginx is
\* there) the certificate facade issues no command toward certificate
\* acquisition: no ACME directory, no test file, no certbot installation and no
\* certbot certonly, in a CLI run and in a GUI multi-target run.
WebServerAbsent == \A f \in NginxFacts : host[f] # Y
C12_NoWebServerNoCertificateCommand ==
    WebServerAbsent => ~loc.mut["letsEncrypt"] /\ loc.first["letsEncrypt"] = "none"

\* C13: the certbot installation and the certificate request are issued only
\* after testDomainReachability passed in the same run, for a domain whose test
\* file request was answered through HTTP; when the reachability test fails,
\* neither of the two is issued and the facade fails.
C13_CertbotOnlyAfterReachable ==
    /\ loc.certbot => loc.reach = "passed" /\ host["domain.reachable"] = Y
    /\ cmd.c \in CertbotCmds => loc.reach = "passed" /\ host["domain.reachable"] = Y
    /\ loc.reach = "failed" => ~loc.certbot /\ loc.outcome["letsEncrypt"] = "failed"
    /\ loc.reach = "none" => ~loc.certbot

C13_Witness ==
    /\ cmd.c = "sudo certbot certonly -d $domain --nginx -n --email $email --agree-tos"
    /\ phase = "busy" /\ loc.reach = "passed"

C13_WitnessUnreachable ==
    /\ loc.reach = "failed" /\ host["domain.reachable"] = N /\ pc = "done" /\ ~loc.certbot

\* C14: the download of the editor server (the code-server install script)
\* is dispatched only inside a facade run whose first command was the read-only
\* certificate check and on a host where that check found the certificate of
\* the domain; when the certificate is not there, the facade issues no mutating
\* command at all, the download included, and fails.
DownloadStep == "curl -fsSL https://code-server.dev/install.sh | sudo sh"
C14_DownloadOnlyWithCertificate ==
    /\ cmd.c = DownloadStep =>
          /\ loc.facade = "vscodeWeb" /\ loc.first["vscodeWeb"] = "read"
          /\ host["ssl.cert"] = Y
    /\ loc.first["vscodeWeb"] \in {"none", "read"}
    /\ loc.mut["vscodeWeb"] => host["ssl.cert"] = Y
    /\ host["ssl.cert"] # Y /\ loc.first["vscodeWeb"] # "none" /\ loc.facade # "vscodeWeb" =>
          loc.outcome["vscodeWeb"] = "failed" /\ ~loc.mut["vscodeWeb"]

C14_Witness ==
    /\ entry = "gui.install-selected" /\ loc.outcome["letsEncrypt"] = "verified"
    /\ cmd.c = DownloadStep /\ phase = "busy"

C14_WitnessNoCertificate ==
    /\ host["ssl.cert"] = N /\ loc.outcome["vscodeWeb"] = "failed" /\ ~loc.mut["vscodeWeb"]
    /\ pc = "done"

\* C17: in a multi-target GUI run in which the facade of some target failed,
\* every selected target has still been attempted and has its outcome, success
\* or failure, in the returned results.
SelectedRunReplied == entry = "gui.install-selected" /\ pc = "done" /\ exit = "reply"
Attempted(t) == loc.outcome[t] # "none" \/ loc.recorded[t] = "error"
FacadeFailed(t) == loc.outcome[t] = "failed" \/ (t # "basicTools" /\ loc.outcome[t] = "unverified")
C17_EverySelectedAttemptedAndRecorded ==
    SelectedRunReplied /\ faults = 0 /\ (\E t \in sel : FacadeFailed(t)) =>
        \A t \in sel : Attempted(t) /\ loc.recorded[t] # "null"

\* C17 (amended): in a multi-target GUI run, a facade that fails does not end
\* the run: the handler replies success with the results.  Node.js, Nginx, the
\* tool bundle and VS Code Web are attempted whenever selected; the certificate
\* is attempted exactly if the Nginx result of this run reports it installed,
\* the static website exactly if the Nginx and the tool bundle results do.  A
\* result returned by a facade stays in the results whatever later targets do;
\* a failed facade leaves its entry null, except VS Code Web, whose failure is
\* recorded as an error entry.
Returned(t) ==
    \/ loc.outcome[t] \in {"verified", "skipped"}
    \/ t = "basicTools" /\ loc.outcome[t] = "unverified"
C17_FailureSkipsOnlyDependents ==
    /\ entry = "gui.install-selected" /\ pc = "done" /\ conn = "ended" => exit = "reply"
    /\ SelectedRunReplied =>
          /\ \A t \in sel \cap {"nodejs", "nginx", "basicTools", "vscodeWeb"} : Attempted(t)
          /\ "letsEncrypt" \in sel => (Attempted("letsEncrypt") <=> loc.results.nginx)
          /\ "staticWebsite" \in sel =>
                (Attempted("staticWebsite") <=> loc.results.nginx /\ loc.results.basicTools)
          /\ \A t \in Targets :
                /\ Returned(t) <=> loc.recorded[t] = "value"
                /\ loc.recorded[t] = "error" => t = "vscodeWeb"
                /\ loc.outcome[t] = "none" /\ t \notin sel => loc.recorded[t] = "null"
          /\ "vscodeWeb" \in sel => loc.recorded["vscodeWeb"] # "null"
          /\ loc.results.nginx => loc.recorded["nginx"] = "value"
          /\ loc.results.basicTools => loc.recorded["basicTools"] = "value"

C17_Witness ==
    /\ SelectedRunReplied /\ sel = {"nodejs", "nginx"} /\ faults = 0
    /\ loc.outcome["nodejs"] = "unverified" /\ loc.recorded["nodejs"] = "null"
    /\ loc.outcome["nginx"] = "verified" /\ loc.recorded["nginx"] = "value"

\* C15: when the API has answered N polls of waitForInstanceReady with another
\* state than running and then answers running, with N below the ceiling of 60,
\* the wait has sent exactly N + 1 DescribeInstances requests, has recorded the
\* public address of the instance and goes on without an error.
WaitReturned == pc = "saveKeyPair"
C15_RunningAfterNPolls ==
    /\ frame.instanceRunning =>
          /\ frame.notRunning < waitForInstanceReady_maxAttempts
          /\ frame.polls = frame.notRunning + 1
          /\ creator.instanceIp = PublicIpAddress
    /\ WaitReturned => frame.instanceRunning /\ frame.error = "" /\ ec2.instance = "running"
    /\ pc = "waitForInstanceReady.after" /\ frame.notRunning < waitForInstanceReady_maxAttempts =>
          frame.instanceRunning

C15_Witness ==
    /\ WaitReturned /\ frame.notRunning = waitForInstanceReady_maxAttempts - 1
    /\ frame.polls = waitForInstanceReady_maxAttempts /\ creator.instanceIp = PublicIpAddress

\* C16: waitForInstanceReady never sends more than 60 DescribeInstances
\* requests; when none of 60 polls was answered with running it stops polling
\* and throws the timeout error, which ends the run with status 1.
TimeoutError == "Timeout waiting for instance to become ready"
C16_WaitEndsAtCeiling ==
    /\ frame.polls <= waitForInstanceReady_maxAttempts
    /\ frame.attempts <= waitForInstanceReady_maxAttempts
    /\ frame.notRunning = waitForInstanceReady_maxAttempts =>
          pc # "waitForInstanceReady.while" \/ ~PollAgain(frame)
    /\ frame.error = TimeoutError =>
          /\ frame.polls = waitForInstanceReady_maxAttempts
          /\ frame.notRunning = waitForInstanceReady_maxAttempts
          /\ creator.instanceIp = ""
    /\ pc = "waitForInstanceReady.after" /\ ~frame.instanceRunning =>
          frame.notRunning = waitForInstanceReady_maxAttempts
    /\ mode = "create" /\ pc = "done" /\ frame.error = TimeoutError =>
          exit = "exit1" /\ frame.reported = TimeoutError

C16_Witness ==
    /\ pc = "done" /\ exit = "exit1" /\ frame.reported = TimeoutError
    /\ frame.polls = waitForInstanceReady_maxAttempts /\ faults = 0

\* C18: when runCreate has failed, a terminate or delete request has been sent
\* for every resource the run created (instance, security group, key pair)
\* before the failure is reported, and the error reported is the creation error.
TeardownOf(id) ==
    IF id = TheInstance THEN "TerminateInstances"
    ELSE IF id = TheGroup THEN "DeleteSecurityGroup" ELSE "DeleteKeyPair"
Sent(op, id) == \E k \in 1..Len(sent) : sent[k] = Request(op, id)
CreateFailureReported == mode = "create" /\ pc = "done" /\ exit = "exit1" /\ frame.error # ""
C18_FailedCreateTearsDownAll ==
    CreateFailureReported =>
        /\ \A id \in frame.created : Sent(TeardownOf(id), id)
        /\ frame.reported = frame.error

\* C19: no DeleteSecurityGroup request is sent for a security group named
\* default: cleanup of a named group stops at the default group, auto-discovery
\* never lists it, and the cleanup after a failed creation deletes only the
\* group the run created.
C19_DefaultGroupNeverDeleted ==
    /\ \A k \in 1..Len(sent) :
          sent[k].op = "DeleteSecurityGroup" => GroupName(sent[k].id) # "default"
    /\ \A k \in 1..Len(frame.resources.securityGroups) :
          GroupName(frame.resources.securityGroups[k]) # "default"
    /\ pc = "cleanupResources.deleteGroup" => GroupName(frame.target.securityGroup) # "default"
    /\ DefaultGroup \in ec2.groups

C19_Witness ==
    /\ mode = "cleanup" /\ argv.securityGroup = DefaultGroup /\ argv.instance = TheInstance
    /\ pc = "done" /\ exit = "ok" /\ faults = 0
    /\ sent = <<Request("TerminateInstances", TheInstance)>>

\* C20: in cleanup mode without --yes / -y, a terminate or delete request is
\* sent only after the operator answered y or yes to the confirmation prompt,
\* in auto-discovery cleanup and in cleanup of named resources.
Destructive == {"TerminateInstances", "DeleteSecurityGroup", "DeleteKeyPair"}
C20_NoDeletionWithoutConfirmation ==
    mode = "cleanup" /\ ~argv.yes /\ (\E k \in 1..Len(sent) : sent[k].op \in Destructive)
        => frame.prompted /\ answer \in {"y", "yes"}

\* C21: in a cleanup run the requests go out in the order instance, security
\* group, key pair: no DeleteSecurityGroup is sent before a TerminateInstances
\* and no DeleteKeyPair before a DeleteSecurityGroup.
SentBefore(a, b) ==
    \E i, j \in 1..Len(sent) : i < j /\ sent[i].op = a /\ sent[j].op = b
C21_InstanceThenGroupThenKeyPair ==
    mode = "cleanup" =>
        /\ ~SentBefore("DeleteSecurityGroup", "TerminateInstances")
        /\ ~SentBefore("DeleteKeyPair", "DeleteSecurityGroup")

\* C22 as stated: a cleanupResources call that terminated an instance sends
\* the delete request of a security group or key pair only after it has seen
\* the instance in state terminated.
DeletedAfterTerminate ==
    /\ mode = "cleanup" /\ frame.deleted
    /\ frame.target.instance # "" /\ frame.wait # "rejected"
C22_WitnessCeiling ==
    /\ DeletedAfterTerminate /\ frame.wait = "ceiling" /\ faults = 0
    /\ ec2.instance = "shutting-down"
    /\ sent = <<Request("TerminateInstances", TheInstance), Request("DeleteSecurityGroup", TheGroup)>>
    /\ TheGroup \in ec2.groups

\* where the facade of target t has its initial probe's result in loc.ret
CheckedAt(t) ==
    CASE t = "nodejs" -> "installNode.checked"
      [] t = "nginx" -> "installNginx.checked"
      [] t = "basicTools" -> "installTools.checked"

C23_WitnessNginx ==
    /\ pc = CheckedAt("nginx") /\ loc.probeErr /\ loc.ret.installed /\ loc.signal = "package"

\* the detection methods of checkNginxInstalled in their fallback order, and
\* how many commands each may issue
Rank(m) ==
    CASE m = "path" -> 1 [] m = "command" -> 2 [] m = "package" -> 3
      [] m = "service" -> 4 [] m = "active" -> 5
CommandsOf(m) == IF m = "path" THEN Len(nginxPaths) ELSE IF m = "command" THEN 2 ELSE 1
Issued(m) == Cardinality({k \in 1..Len(loc.tried) : loc.tried[k] = m})
Detection == {k \in 1..Len(loc.tried) : loc.tried[k] # "active"}

\* C24: checkNginxInstalled issues its detection commands in the order binary
\* paths, PATH-resolved command, package record, service record, a later method
\* only after the earlier ones; the method that gave the positive signal is the
\* last detection command issued, and only the running-state query follows it.
C24_FixedOrderStopsAtFirstSignal ==
    /\ \A j, k \in 1..Len(loc.tried) : j < k => Rank(loc.tried[j]) <= Rank(loc.tried[k])
    /\ \A m \in {"path", "command", "package", "service", "active"} : Issued(m) <= CommandsOf(m)
    /\ Issued("command") > 0 => Issued("path") = Len(nginxPaths)
    /\ Issued("package") > 0 => Issued("command") > 0
    /\ Issued("service") > 0 => Issued("package") > 0
    /\ Issued("active") > 0 => loc.signal # "none"
    /\ loc.signal # "none" =>
          /\ Detection # {}
          /\ \A k \in Detection :
                (\A j \in Detection : j <= k) => loc.tried[k] = loc.signal
          /\ loc.signal = "command" => Issued("command") = 2

\* a probe that found Nginx at its second binary path and then only asked
\* whether the service is running
C24_Witness ==
    /\ pc = "installNginx.checked" /\ loc.signal = "path"
    /\ loc.tried = <<"path", "path", "active">> /\ faults = 0

\* a probe that went through every method and was answered by the service record
C24_WitnessService ==
    /\ pc = "installNginx.checked" /\ loc.signal = "service" /\ faults = 0
    /\ loc.tried = <<"path", "path", "path", "path", "command", "package", "service", "active">>

\* C25: a result of checkNginxInstalled or installNginx with running=true
\* means the service is active: the probe's `systemctl is-active nginx` reported
\* active, or the start command of installNginx exited with status zero; and no
\* probe result has running=true with installed=false.
C25_RunningMeansActive ==
    /\ pc = CheckedAt("nginx") =>
          /\ loc.ret.running => loc.active = "active"
          /\ loc.ret.running => loc.ret.installed
    /\ pc \in ResultOf("nginx") /\ loc.outcome["nginx"] \in Succeeded /\ loc.ret.running =>
          loc.active = "active" \/ loc.started = "ok"

\* C26: installStaticWebsite issues a mutating command only when its
\* preconditions hold: the local ZIP archive exists and the archive-extraction
\* tool is known to be on the host (the web server being installed is tested
\* first); with the archive missing the facade fails and has issued no
\* mutating command.
C26_NoMutationBeforePreconditions ==
    /\ loc.mut["staticWebsite"] => zipExists /\ host["unzip"] = Y
    /\ ~zipExists /\ loc.outcome["staticWebsite"] # "none" =>
          loc.outcome["staticWebsite"] = "failed" /\ ~loc.mut["staticWebsite"]

\* the positions of createCodeServerConfig and of what follows it
ConfigSteps == {"cfg.mkdir", "cfg.cat", "cfg.restart"}
AfterConfig == {"ng.exists", "ng.read", "ng.write", "ng.mv", "ng.test", "ng.reload"}
ConfigWrite == "cat > ~/.config/code-server/config.yaml << 'EOF' $configContent EOF"

\* C27: the config.yaml write carries an argon2 hash and nothing else; it and
\* the restart are reached only with a hash made by an argon2 implementation;
\* without argon2, or when hashing fails, installVSCodeWeb ends failed and
\* neither step is dispatched.
C27_ConfigOnlyWithArgon2Hash ==
    /\ cmd.c = ConfigWrite => cmd.a = <<"argon2">>
    /\ pc \in ConfigSteps => argon2 /\ loc.hashedPassword = "argon2"
    /\ loc.hashedPassword \in {"", "argon2"}
    /\ ~argon2 =>
          /\ pc \notin ConfigSteps \cup AfterConfig
          /\ cmd.c \notin {ConfigWrite, "sudo systemctl restart code-server@$USER"}
          /\ loc.outcome["vscodeWeb"] \in {"none", "failed"}

\* the configuration is being written with the argon2 hash
C27_Witness ==
    /\ entry = "cli.vscodeWeb" /\ argon2 /\ cmd.c = ConfigWrite /\ cmd.a = <<"argon2">>
    /\ phase = "busy"

\* no argon2: code-server was installed and the facade failed at the hashing
C27_WitnessNoArgon2 ==
    /\ entry = "cli.vscodeWeb" /\ ~argon2 /\ pc = "done" /\ faults = 0
    /\ loc.outcome["vscodeWeb"] = "failed" /\ loc.mut["vscodeWeb"]
    /\ host["code.running"] = Y

\* the key file that saveKeyPair wrote for key pair k, or that is named after it
SavedFor(k) ==
    IF k = TheKeyPair THEN {keyFileName(PublicIpAddress), TheKeyPair \o ".pem"} ELSE {}

\* C28: the only local .pem files a cleanup removes are key files of the key
\* pairs it deleted; the key file of another instance stays in the working
\* directory.
C28_OnlyOwnKeyFileRemoved ==
    mode = "cleanup" =>
        \A f \in frame.removed :
            \E k \in 1..Len(sent) : sent[k].op = "DeleteKeyPair" /\ f \in SavedFor(sent[k].id)

\* the reload commands of extractZipFile, createNginxConfig and updateNginxConfig
ReloadCmds == {"sudo systemctl reload nginx 2>&1 || sudo service nginx reload 2>&1",
               "sudo systemctl reload nginx"}
ReloadSteps == {"static.reload", "ng.reload"}

\* C29: in extractZipFile, createNginxConfig and updateNginxConfig the reload
\* of Nginx is dispatched only after the `nginx -t` of the same operation has
\* exited with status zero; after a failed test no reload is dispatched.
C29_ReloadOnlyAfterPassedTest ==
    /\ cmd.c \in ReloadCmds => loc.tested = "passed"
    /\ pc \in ReloadSteps => loc.tested = "passed"
    /\ pc = "static.extract" /\ ExtractSteps[loc.i] \in ReloadCmds => loc.tested = "passed"

\* the reload of createNginxConfig is in flight after its test passed
C29_Witness ==
    /\ cmd.c = "sudo systemctl reload nginx" /\ loc.facade = "staticWebsite"
    /\ loc.tested = "passed" /\ faults = 0 /\ phase = "busy"

\* the reload of extractZipFile is in flight
C29_WitnessExtract ==
    /\ cmd.c = "sudo systemctl reload nginx 2>&1 || sudo service nginx reload 2>&1"
    /\ loc.tested = "passed" /\ phase = "busy"

\* the operations of the renderer whose invoke has not settled
PendingOperations == {b \in Buttons : renderer.pending[b]}

\* C30: from the GUI at most one check or install operation is in flight at a
\* time (no second one can be started by click or shortcut while one is
\* pending), and currentOperation is non-null exactly while an operation is
\* pending
C30_OneOperationInFlight ==
    /\ Cardinality(PendingOperations) <= 1
    /\ (renderer.currentOperation # "null") <=> (PendingOperations # {})

====
